---- MODULE Spec2Model ----
(***************************************************************************)
(* Trans-dimensional Bayesian inversion (bayes-bridge).                    *)
(*                                                                         *)
(* Part I  - the parameter-space engine: Voronoi1D and ParameterSpace      *)
(*           birth / death / perturb_value on ParameterSpaceState values.  *)
(* Part II - the Metropolis-Hastings chain: MarkovChain._next_iteration    *)
(*           over Parameterization1D and its Model (current / proposed).   *)
(*                                                                         *)
(* Real numbers are kept on grids.  Positions and parameter values are     *)
(* integers; logarithms of probabilities are integers in eighths.            *)
(***************************************************************************)
EXTENDS Integers, Sequences, FiniteSets, TLC

VARIABLES
    space,        \* Part I: configuration of the parameter space under test
    ps_state,     \* Part I: the ParameterSpaceState held by the caller
    ret,          \* Part I: outcome of the latest birth/death/perturb_value call
    undone        \* Part I: the latest call was a death that removed the cell
                  \*         born by the call right before it

VARIABLES
    setup,        \* Part II: how the chain was built and what advance_chain was given
    model,        \* Part II: Model: current_state, proposed_state, _current_perturbation
    chain,        \* Part II: MarkovChain: misfit, temperature, counters, saved_models
    iteration,    \* Part II: advance_chain's loop index i
    attempt       \* Part II: what the latest pass through _next_iteration's loop did

VARIABLES
    inversion     \* Part III: BayesianInversion.run: its chains, its loop and the
                  \*           latest swap proposal

VARIABLES
    streams       \* Part IV: the random generators of the processes and the
                  \*          draws each chain takes from them

VARIABLES
    states        \* Part V: State objects: their parameter values and caches

space_vars == <<space, ps_state, ret, undone>>

chain_vars == <<setup, model, chain, iteration, attempt>>

vars == <<space, ps_state, ret, undone, setup, model, chain, iteration, attempt,
         inversion, streams, states>>

run_vars == <<inversion, streams, states>>

\* the variables of the part a specification does not exercise stay put
IdleChain ==
    /\ setup = "idle"
    /\ model = "idle"
    /\ chain = "idle"
    /\ iteration = 0
    /\ attempt = "idle"

IdleInversion == inversion = "idle"

IdleStreams == streams = "idle"

IdleStates == states = "idle"

IdleRun == IdleInversion /\ IdleStreams /\ IdleStates

(***************************************************************************)
(* Bounds of the model and constants of the program                        *)
(***************************************************************************)
\* site positions are drawn from the grid vmin .. vmax
vmin == 0
VMax == 2
vmax == VMax
\* parameter values are drawn from the grid 0 .. MaxVal
MaxVal == 1
\* dimension bounds of the trans-dimensional space
n_dimensions_min == 1
NDimMax == 2
n_dimensions_max == NDimMax
\* n_dimensions_init_range, in tenths (0.3 by default)
n_dimensions_init_range == 3
Positions == vmin .. vmax
Values == 0 .. MaxVal
ParamNames == {"vs"}

(***************************************************************************)
(* Array helpers (numpy / bisect / _utils_1d)                              *)
(***************************************************************************)
Abs(x) == IF x < 0 THEN -x ELSE x

\* bisect.bisect_left(a, x): the number of leading elements smaller than x
bisect_left(a, x) == Cardinality({i \in 1 .. Len(a) : a[i] < x})

\* insert_scalar(values, index, value): index counts from 0
insert_scalar(values, index, value) ==
    [i \in 1 .. Len(values) + 1 |->
        IF i <= index THEN values[i]
        ELSE IF i = index + 1 THEN value
        ELSE values[i - 1]]

\* delete(values, index): index counts from 0
delete(values, index) ==
    [i \in 1 .. Len(values) - 1 |->
        IF i <= index THEN values[i] ELSE values[i + 1]]

\* nearest_index(xp, x, xlen): the (first) index, from 0, of the element of x
\* nearest to xp
nearest_index(xp, x, xlen) ==
    CHOOSE i \in 0 .. xlen - 1 :
        /\ \A j \in 0 .. xlen - 1 : Abs(x[i + 1] - xp) <= Abs(x[j + 1] - xp)
        /\ \A j \in 0 .. i - 1 : Abs(x[j + 1] - xp) > Abs(x[i + 1] - xp)

\* numpy.argsort as a set: every permutation p of 1 .. Len(a) that sorts a
\* (the order of equal elements is not specified by the default sort kind)
Permutations1(n) ==
    {p \in [1 .. n -> 1 .. n] : \A i, j \in 1 .. n : i # j => p[i] # p[j]}

PermutationTable == [n \in 0 .. 6 |-> Permutations1(n)]

argsort(a) ==
    {p \in PermutationTable[Len(a)] :
        \A i \in 1 .. Len(a) - 1 : a[p[i]] <= a[p[i + 1]]}

\* a[isort]
take(a, isort) == [i \in 1 .. Len(a) |-> a[isort[i]]]

(***************************************************************************)
(* ParameterSpaceState                                                     *)
(***************************************************************************)
\* the dataclass: __post_init__ refuses a field whose length is not
\* n_dimensions
ParameterSpaceStateValid_at_most(n, param_values) ==
    \A name \in DOMAIN param_values : Len(param_values[name]) <= n

ParameterSpaceStateValid(n, param_values) ==
    \A name \in DOMAIN param_values : Len(param_values[name]) = n

ParameterSpaceState(n, param_values) ==
    [n_dimensions |-> n, param_values |-> param_values]

(***************************************************************************)
(* The free parameter "vs": a Gaussian parameter whose prior mean and      *)
(* perturbation standard deviation depend on position                      *)
(***************************************************************************)
\* the prior is Normal(PriorMean(position), 1)
PriorMean(position) == IF position <= 1 THEN 0 ELSE 1

\* get_perturb_std(position): 1 up to position 1, 2 beyond
get_perturb_std(name, position) == IF position <= 1 THEN 1 ELSE 2

\* log(std * sqrt(2 pi)) in eighths, rounded: 7/8 for std 1, 13/8 for std 2
LogStdSqrtTwoPi(std) == IF std = 1 THEN 7 ELSE 13

\* (delta ^ 2) / (2 std ^ 2) in eighths: exact for std 1 and std 2
SquareOverTwoVar(delta, std) == (4 * delta * delta) \div (std * std)

\* log_prior(value, position) = -(value - mean)^2 / 2 - log(sqrt(2 pi))
log_prior(name, value, position) ==
    0 - SquareOverTwoVar(value - PriorMean(position), 1) - LogStdSqrtTwoPi(1)

\* initialize(position): a draw from the prior; every value of the grid
param_initialize(name, position) == Values

\* perturb_value(value, position): value + Normal(0, std); the draws that
\* stay on the grid
param_perturb_value(name, value, position) ==
    {v \in Values : Abs(v - value) <= 1}

(***************************************************************************)
(* Outcomes of a call: a returned (state, log ratio) pair or an exception  *)
(***************************************************************************)
Raise(op, arg, exc) ==
    [op |-> op, arg |-> arg, raised |-> exc, state |-> <<>>, log |-> <<>>,
     index |-> -1, site |-> -1]

Return(op, arg, new_ps_state, log_ratio, index, site) ==
    [op |-> op, arg |-> arg, raised |-> "none", state |-> <<new_ps_state>>,
     log |-> <<log_ratio>>, index |-> index, site |-> site]

NoCall == Raise("none", ParameterSpaceState(0, <<>>), "none")

(***************************************************************************)
(* Voronoi1D                                                               *)
(***************************************************************************)
\* random.normalvariate(0, perturb_std) on the grid: far enough to leave the
\* domain from any site, and to reach every position from any site
Deviates == (vmin - vmax) .. (vmax - vmin)

\* the first draw of site + deviate, kept wherever it lands
perturb_site_first_draw(site) == {site + random_deviate : random_deviate \in Deviates}

\* Voronoi1D._perturb_site: site + Normal(0, perturb_std), redrawn until it
\* lies within [vmin, vmax]
perturb_site(site) ==
    {new_site \in {site + random_deviate : random_deviate \in Deviates} :
        new_site >= vmin /\ new_site <= vmax}

\* the sum of f[name] over the free parameters in names
RECURSIVE SumOverParams(_, _)
SumOverParams(names, f) ==
    IF names = {} THEN 0
    ELSE LET name == CHOOSE x \in names : TRUE
         IN f[name] + SumOverParams(names \ {name}, f)

\* param.position is not None: space.positioned holds the names of the
\* free parameters whose prior depends on position
has_position(name) == name \in space.positioned

\* perturb_value evaluating the priors on the value found at isite after the
\* values were reordered
Voronoi1D_perturb_value_reordered(old_ps_state, isite, new_site, isort) ==
    LET old_sites == old_ps_state.param_values.discretization
        old_site == old_sites[isite + 1]
        moved == [old_sites EXCEPT ![isite + 1] = new_site]
        new_values ==
            [name \in DOMAIN old_ps_state.param_values |->
                IF name = "discretization" THEN take(moved, isort)
                ELSE take(old_ps_state.param_values[name], isort)]
        log_prior_ratio ==
            [name \in ParamNames |->
                IF has_position(name)
                THEN log_prior(name, new_values[name][isite + 1], new_site)
                     - log_prior(name, new_values[name][isite + 1], old_site)
                ELSE 0]
    IN Return("perturb_value", old_ps_state,
              ParameterSpaceState(old_ps_state.n_dimensions, new_values),
              SumOverParams(ParamNames, log_prior_ratio), isite, new_site)

\* Voronoi1D.perturb_value with the draws made explicit: the new position of
\* site isite, and the permutation numpy.argsort returns
Voronoi1D_perturb_value(old_ps_state, isite, new_site, isort) ==
    LET old_sites == old_ps_state.param_values.discretization
        old_site == old_sites[isite + 1]
        moved == [old_sites EXCEPT ![isite + 1] = new_site]
        new_sites == take(moved, isort)
        log_prior_ratio ==
            [name \in ParamNames |->
                IF has_position(name)
                THEN log_prior(name, old_ps_state.param_values[name][isite + 1],
                               new_site)
                     - log_prior(name, old_ps_state.param_values[name][isite + 1],
                                 old_site)
                ELSE 0]
        new_values ==
            [name \in DOMAIN old_ps_state.param_values |->
                IF name = "discretization" THEN new_sites
                ELSE take(old_ps_state.param_values[name], isort)]
    IN Return("perturb_value", old_ps_state,
              ParameterSpaceState(old_ps_state.n_dimensions, new_values),
              SumOverParams(ParamNames, log_prior_ratio), isite, new_site)

\* Voronoi1D._initialize_params_from_prior: the possible (values, None)
initialize_params_from_prior(new_site, old_sites, param_space_state) ==
    {[values |-> nv, i_nearest |-> -1] :
        nv \in {f \in [ParamNames -> Values] :
                    \A name \in ParamNames : f[name] \in param_initialize(name, new_site)}}

\* Voronoi1D._initialize_params_from_neighbour: the possible (values, isite)
initialize_params_from_neighbour(new_site, old_sites, param_space_state) ==
    LET isite == nearest_index(new_site, old_sites, Len(old_sites))
    IN {[values |-> nv, i_nearest |-> isite] :
           nv \in {f \in [ParamNames -> Values] :
                       \A name \in ParamNames :
                           f[name] \in param_perturb_value(
                               name, param_space_state.param_values[name][isite + 1],
                               new_site)}}

\* Voronoi1D._initialize_newborn_params
initialize_newborn_params(birth_from, new_site, old_sites, param_space_state) ==
    IF birth_from = "prior"
    THEN initialize_params_from_prior(new_site, old_sites, param_space_state)
    ELSE initialize_params_from_neighbour(new_site, old_sites, param_space_state)

\* Voronoi1D._log_probability_ratio_birth_from_neighbour
log_probability_ratio_birth_from_neighbour(old_isite, old_ps_state, new_isite, new_ps_state) ==
    LET old_site == old_ps_state.param_values.discretization[old_isite + 1]
        new_site == new_ps_state.param_values.discretization[new_isite + 1]
        log_prior_ratio ==
            [name \in ParamNames |->
                log_prior(name, new_ps_state.param_values[name][new_isite + 1], new_site)]
        log_proposal_ratio ==
            [name \in ParamNames |->
                LET new_value == new_ps_state.param_values[name][new_isite + 1]
                    old_value == old_ps_state.param_values[name][old_isite + 1]
                    perturb_std == get_perturb_std(name, old_site)
                IN LogStdSqrtTwoPi(perturb_std)
                   + SquareOverTwoVar(new_value - old_value, perturb_std)]
    IN SumOverParams(ParamNames, log_prior_ratio)
       + SumOverParams(ParamNames, log_proposal_ratio)

\* a birth ratio that returns the prior term of a birth from prior without
\* the proposal term that cancels it
log_probability_ratio_birth_prior_only(birth_from, old_isite, old_ps_state, new_isite, new_ps_state) ==
    IF birth_from = "prior"
    THEN SumOverParams(ParamNames,
             [name \in ParamNames |->
                 log_prior(name, new_ps_state.param_values[name][new_isite + 1],
                           new_ps_state.param_values.discretization[new_isite + 1])])
    ELSE log_probability_ratio_birth_from_neighbour(
             old_isite, old_ps_state, new_isite, new_ps_state)

\* Voronoi1D._log_probability_ratio_birth
log_probability_ratio_birth(birth_from, old_isite, old_ps_state, new_isite, new_ps_state) ==
    IF birth_from = "prior" THEN 0
    ELSE log_probability_ratio_birth_from_neighbour(
             old_isite, old_ps_state, new_isite, new_ps_state)

\* a birth guard that lets a full space grow by one more cell
BirthForbidden_late(n_cells) == n_cells > n_dimensions_max

\* a death guard that lets a space at its minimum lose one more cell
DeathForbidden_late(n_cells) == n_cells < n_dimensions_min

\* the guard of Voronoi1D.birth / ParameterSpace.birth
BirthForbidden(n_cells) == n_cells = n_dimensions_max

\* the guard of Voronoi1D.death / ParameterSpace.death
DeathForbidden(n_cells) == n_cells = n_dimensions_min

\* Voronoi1D.birth with the draws made explicit: the new site and the
\* newborn values (an element of initialize_newborn_params)
Voronoi1D_birth(birth_from, old_ps_state, new_site, newborn) ==
    LET n_cells == old_ps_state.n_dimensions
        old_sites == old_ps_state.param_values.discretization
        idx_insert == bisect_left(old_sites, new_site)
        new_values ==
            [name \in DOMAIN old_ps_state.param_values |->
                IF name = "discretization"
                THEN insert_scalar(old_sites, idx_insert, new_site)
                ELSE insert_scalar(old_ps_state.param_values[name], idx_insert,
                                   newborn.values[name])]
        new_ps_state == ParameterSpaceState(n_cells + 1, new_values)
    IN IF BirthForbidden(n_cells)
       THEN Raise("birth", old_ps_state, "DimensionalityException")
       ELSE Return("birth", old_ps_state, new_ps_state,
                   log_probability_ratio_birth(
                       birth_from, newborn.i_nearest, old_ps_state, idx_insert,
                       new_ps_state),
                   idx_insert, new_site)

\* a death ratio with the sign of the birth ratio
log_probability_ratio_death_from_neighbour_unsigned(birth_from, iremove, old_ps_state, new_ps_state) ==
    LET old_sites == old_ps_state.param_values.discretization
        new_sites == new_ps_state.param_values.discretization
        i_nearest == nearest_index(old_sites[iremove + 1], new_sites, Len(new_sites))
    IN log_probability_ratio_birth(
           birth_from, i_nearest, new_ps_state, iremove, old_ps_state)

\* Voronoi1D._log_probability_ratio_death_from_neighbour
log_probability_ratio_death_from_neighbour(birth_from, iremove, old_ps_state, new_ps_state) ==
    LET old_sites == old_ps_state.param_values.discretization
        new_sites == new_ps_state.param_values.discretization
        i_nearest == nearest_index(old_sites[iremove + 1], new_sites, Len(new_sites))
    IN 0 - log_probability_ratio_birth(
               birth_from, i_nearest, new_ps_state, iremove, old_ps_state)

\* Voronoi1D._log_probability_ratio_death
log_probability_ratio_death(birth_from, iremove, old_ps_state, new_ps_state) ==
    IF birth_from = "prior" THEN 0
    ELSE log_probability_ratio_death_from_neighbour(
             birth_from, iremove, old_ps_state, new_ps_state)

\* Voronoi1D.death with the draw made explicit: the index of the site to kill
Voronoi1D_death(birth_from, old_ps_state, iremove) ==
    LET n_cells == old_ps_state.n_dimensions
        new_values ==
            [name \in DOMAIN old_ps_state.param_values |->
                delete(old_ps_state.param_values[name], iremove)]
        new_ps_state == ParameterSpaceState(n_cells - 1, new_values)
    IN IF DeathForbidden(n_cells)
       THEN Raise("death", old_ps_state, "DimensionalityException")
       ELSE Return("death", old_ps_state, new_ps_state,
                   log_probability_ratio_death(
                       birth_from, iremove, old_ps_state, new_ps_state),
                   iremove, old_ps_state.param_values.discretization[iremove + 1])

(***************************************************************************)
(* ParameterSpace (no positions)                                           *)
(***************************************************************************)
\* ParameterSpace.birth with the draws made explicit: the insertion index
\* and the values drawn by each parameter's initialize()
ParameterSpace_birth(ps, i_insert, newborn) ==
    LET n_dims == ps.n_dimensions
        new_param_values ==
            [name \in DOMAIN ps.param_values |->
                insert_scalar(ps.param_values[name], i_insert, newborn[name])]
    IN IF BirthForbidden(n_dims)
       THEN Raise("birth", ps, "DimensionalityException")
       ELSE Return("birth", ps, ParameterSpaceState(n_dims + 1, new_param_values),
                   0, i_insert, -1)

\* ParameterSpace.death with the draw made explicit: the index to remove
ParameterSpace_death(ps, i_to_remove) ==
    LET n_dims == ps.n_dimensions
        new_param_values ==
            [name \in DOMAIN ps.param_values |->
                delete(ps.param_values[name], i_to_remove)]
    IN IF DeathForbidden(n_dims)
       THEN Raise("death", ps, "DimensionalityException")
       ELSE Return("death", ps, ParameterSpaceState(n_dims - 1, new_param_values),
                   0, i_to_remove, -1)

(***************************************************************************)
(* Part I: calls on a parameter space                                      *)
(***************************************************************************)
IsVoronoi == space.kind = "Voronoi1D"

\* int((n_dims_max - n_dims_min) * init_range + n_dims_min)
init_max ==
    ((n_dimensions_max - n_dimensions_min) * n_dimensions_init_range) \div 10
    + n_dimensions_min

StrictlyAscending(a) == \A i \in 1 .. Len(a) - 1 : a[i] < a[i + 1]
Ascending(a) == \A i \in 1 .. Len(a) - 1 : a[i] <= a[i + 1]

\* Voronoi1D.initialize: the states it can return (sites drawn apart)
Voronoi1D_initialize ==
    UNION {{ParameterSpaceState(n, [discretization |-> sites, vs |-> values]) :
                sites \in {x \in [1 .. n -> Positions] : StrictlyAscending(x)},
                values \in [1 .. n -> Values]} :
           n \in n_dimensions_min .. init_max}

\* ParameterSpace.initialize: the states it can return
ParameterSpace_initialize ==
    UNION {{ParameterSpaceState(n, [vs |-> values]) : values \in [1 .. n -> Values]} :
           n \in n_dimensions_min .. init_max}

InitSpace ==
    /\ space \in {[kind |-> "Voronoi1D", birth_from |-> "prior",
                   positioned |-> ParamNames],
                  [kind |-> "Voronoi1D", birth_from |-> "neighbour",
                   positioned |-> ParamNames],
                  [kind |-> "ParameterSpace", birth_from |-> "prior",
                   positioned |-> ParamNames]}
    /\ ps_state \in IF IsVoronoi THEN Voronoi1D_initialize
                    ELSE ParameterSpace_initialize
    /\ ret = NoCall
    /\ undone = FALSE
    /\ IdleChain
    /\ IdleRun

\* the caller keeps the returned state, or its own state when the call raised
Called(r) ==
    /\ ret' = r
    /\ undone' = /\ ret.op = "birth" /\ ret.raised = "none"
                  /\ r.op = "death" /\ r.raised = "none"
                  /\ r.index = ret.index
    /\ ps_state' = IF r.raised = "none" THEN r.state[1] ELSE ps_state
    /\ UNCHANGED <<space, chain_vars, run_vars>>

Birth ==
    /\ IsVoronoi
    /\ \E new_site \in Positions :
         \E newborn \in initialize_newborn_params(
                            space.birth_from, new_site,
                            ps_state.param_values.discretization, ps_state) :
             Called(Voronoi1D_birth(space.birth_from, ps_state, new_site, newborn))

Death ==
    /\ IsVoronoi
    /\ \E iremove \in 0 .. ps_state.n_dimensions - 1 :
         Called(Voronoi1D_death(space.birth_from, ps_state, iremove))

PerturbValue ==
    /\ IsVoronoi
    /\ \E isite \in 0 .. ps_state.n_dimensions - 1 :
         \E new_site \in perturb_site(ps_state.param_values.discretization[isite + 1]) :
             \E isort \in argsort([ps_state.param_values.discretization
                                      EXCEPT ![isite + 1] = new_site]) :
                 Called(Voronoi1D_perturb_value(ps_state, isite, new_site, isort))

SpaceBirth ==
    /\ ~IsVoronoi
    /\ \E i_insert \in 0 .. ps_state.n_dimensions :
         \E newborn \in [ParamNames -> Values] :
             /\ \A name \in ParamNames : newborn[name] \in param_initialize(name, -1)
             /\ Called(ParameterSpace_birth(ps_state, i_insert, newborn))

SpaceDeath ==
    /\ ~IsVoronoi
    /\ \E i_to_remove \in 0 .. ps_state.n_dimensions - 1 :
         Called(ParameterSpace_death(ps_state, i_to_remove))

NextSpace == Birth \/ Death \/ PerturbValue \/ SpaceBirth \/ SpaceDeath

SpecSpace == InitSpace /\ [][NextSpace]_vars

(***************************************************************************)
(* Part I: properties                                                      *)
(***************************************************************************)
Returned == ret.op # "none" /\ ret.raised = "none"
Raised == ret.op # "none" /\ ret.raised = "DimensionalityException"

\* C1: a birth on a state with n_dimensions_max dimensions and a death on a
\* state with n_dimensions_min dimensions raise DimensionalityException, for
\* Voronoi1D and for ParameterSpace; no state is returned and the caller's
\* state keeps its dimension count.
C1_BoundRaises ==
    /\ (ret.op = "birth" /\ ret.arg.n_dimensions = n_dimensions_max) =>
           /\ ret.raised = "DimensionalityException"
           /\ ret.state = <<>>
           /\ ps_state = ret.arg
    /\ (ret.op = "death" /\ ret.arg.n_dimensions = n_dimensions_min) =>
           /\ ret.raised = "DimensionalityException"
           /\ ret.state = <<>>
           /\ ps_state = ret.arg

C1_Witness ==
    /\ ret.op = "birth"
    /\ ret.arg.n_dimensions = n_dimensions_max
    /\ ret.raised = "DimensionalityException"

C1_WitnessDeath ==
    /\ ret.op = "death"
    /\ ~IsVoronoi
    /\ ret.arg.n_dimensions = n_dimensions_min
    /\ ret.raised = "DimensionalityException"

\* the number of cells of state ps whose site is at position and whose
\* value of parameter name is value
PairCount(ps, name, position, value) ==
    Cardinality({i \in 1 .. Len(ps.param_values.discretization) :
                    /\ ps.param_values.discretization[i] = position
                    /\ ps.param_values[name][i] = value})

\* the (site, value) pairs of new are those of old, with `less` taken away
\* and `more` added (each a set of at most one <<position, value>>)
PairsMoved(old, new, name, less, more) ==
    \A position \in Positions : \A value \in Values :
        PairCount(new, name, position, value) =
            PairCount(old, name, position, value)
            - (IF <<position, value>> \in less THEN 1 ELSE 0)
            + (IF <<position, value>> \in more THEN 1 ELSE 0)

\* each value of the returned state is still paired with its site
Paired ==
    \A name \in ParamNames :
        LET old == ret.arg
            new == ret.state[1]
            old_pair(i) == <<old.param_values.discretization[i + 1],
                             old.param_values[name][i + 1]>>
        IN CASE ret.op = "perturb_value" ->
                  PairsMoved(old, new, name, {old_pair(ret.index)},
                             {<<ret.site, old.param_values[name][ret.index + 1]>>})
             [] ret.op = "birth" ->
                  PairsMoved(old, new, name, {},
                             {<<ret.site, new.param_values[name][ret.index + 1]>>})
             [] ret.op = "death" ->
                  PairsMoved(old, new, name, {old_pair(ret.index)}, {})

\* C2: after a Voronoi1D perturb_value, birth or death the returned
\* "discretization" is strictly ascending and every free-parameter value is
\* still paired with the site it belonged to.
C2_StrictlyAscendingAndPaired ==
    (IsVoronoi /\ Returned) =>
        /\ StrictlyAscending(ret.state[1].param_values.discretization)
        /\ Paired

\* C2, the part the code keeps: the returned sites are ascending (equal
\* neighbours allowed) and every value is still paired with its site.
C2_AscendingAndPaired ==
    (IsVoronoi /\ Returned) =>
        /\ Ascending(ret.state[1].param_values.discretization)
        /\ Paired

\* C3: a Voronoi1D birth followed at once by the death of the newborn cell
\* returns the state the birth started from, the two log ratios sum to 0,
\* and the death ratio is the negated birth ratio computed from the
\* post-death state with the removed site's nearest remaining site.
C3_BirthThenDeath ==
    [][(/\ IsVoronoi
        /\ ret.op = "birth" /\ ret.raised = "none"
        /\ ret'.op = "death" /\ ret'.raised = "none"
        /\ ret'.index = ret.index)
       => (/\ ret'.arg = ret.state[1]
           /\ ret'.state[1] = ret.arg
           /\ ret.log[1] + ret'.log[1] = 0
           /\ ret'.log[1] =
                0 - log_probability_ratio_birth(
                        space.birth_from,
                        IF space.birth_from = "prior" THEN -1
                        ELSE nearest_index(
                                 ret'.site,
                                 ret'.state[1].param_values.discretization,
                                 ret'.state[1].n_dimensions),
                        ret'.state[1], ret'.index, ret'.arg))]_vars

C3_Witness ==
    /\ undone
    /\ space.birth_from = "neighbour"
    /\ ret.log[1] # 0

\* C4: with newborn values drawn from the prior (Voronoi1D with
\* birth_from = "prior", and ParameterSpace) every birth and every death
\* returns a log ratio of exactly 0.
C4_PriorBirthIsZero ==
    (Returned /\ ret.op \in {"birth", "death"} /\ space.birth_from = "prior") =>
        ret.log[1] = 0

C4_Witness ==
    /\ IsVoronoi
    /\ space.birth_from = "prior"
    /\ Returned
    /\ ret.op = "birth"
    /\ ret.state[1].param_values.vs[ret.index + 1] # PriorMean(ret.site)
    /\ ret.log[1] = 0

\* C5: the dimension count stays within [n_dimensions_min,
\* n_dimensions_max]; a birth adds exactly 1, a death removes exactly 1,
\* perturb_value keeps it; every field of a returned state has length
\* n_dimensions.
C5_DimensionCount ==
    /\ n_dimensions_min <= ps_state.n_dimensions
    /\ ps_state.n_dimensions <= n_dimensions_max
    /\ ParameterSpaceStateValid(ps_state.n_dimensions, ps_state.param_values)
    /\ Returned =>
          /\ ret.state[1].n_dimensions =
                ret.arg.n_dimensions
                + (CASE ret.op = "birth" -> 1
                     [] ret.op = "death" -> -1
                     [] ret.op = "perturb_value" -> 0)
          /\ ParameterSpaceStateValid(ret.state[1].n_dimensions,
                                      ret.state[1].param_values)

C5_Witness ==
    /\ Returned
    /\ ret.op = "death"
    /\ ret.state[1].n_dimensions = n_dimensions_min
    /\ ret.arg.n_dimensions = n_dimensions_max

(***************************************************************************)
(* Part II: Model and Parameterization1D (bayesbridge/parameters.py)       *)
(***************************************************************************)
\* voronoi_site_bounds = (0, SiteUb)
site_lb == 0
SiteUb == 2
Sites == site_lb .. SiteUb
\* np.abs(new_site - old_sites) < 1e-2, in grid units
site_tolerance == 1
\* n_voronoi_cells_min, n_voronoi_cells_max
n_voronoi_cells_min == 1
NCellsMax == 2
n_voronoi_cells_max == NCellsMax
\* voronoi_cells_init_range, in tenths (0.2 by default)
voronoi_cells_init_range == 2
\* the free parameter: UniformParameter('vs', position=..., vmin=[1, 2],
\* vmax=3, perturb_std=...), with the control points on the grid
free_params == {"vs"}
vs_vmax == 3
vs_vmin(position) == IF position = site_lb THEN 1 ELSE 2
vs_perturb_std == 1
\* float("inf"): the misfit of a chain that has accepted nothing yet
inf == 1000

\* UniformParameter.get_vmin_vmax
get_vmin_vmax(name, position) == <<vs_vmin(position), vs_vmax>>

\* UniformParameter.get_delta
get_delta(name, position) == vs_vmax - vs_vmin(position)

\* log(delta) in eighths, rounded: 0 for 1, 6/8 for 2
LogDelta(delta) == IF delta = 1 THEN 0 ELSE 6

\* UniformParameter.generate_random_values for one position
generate_random_value(name, position) ==
    get_vmin_vmax(name, position)[1] .. get_vmin_vmax(name, position)[2]

\* UniformParameter.perturb_value(position, value): value + Normal(0, std),
\* redrawn until it lies within [vmin, vmax]
uniform_perturb_value(name, position, value) ==
    {new_value \in get_vmin_vmax(name, position)[1] - 1 .. get_vmin_vmax(name, position)[2] + 1 :
        ~(\/ new_value < get_vmin_vmax(name, position)[1]
          \/ new_value > get_vmin_vmax(name, position)[2])}

\* UniformParameter.prior_ratio_position_perturbation
prior_ratio_position_perturbation(name, old_position, new_position) ==
    LogDelta(get_delta(name, old_position)) - LogDelta(get_delta(name, new_position))

\* _get_thickness(voronoi_sites), in half grid units: the cell boundaries are
\* the midpoints of consecutive sites, the first cell starts at 0, the last
\* cell is unbounded and has extent 0
get_thickness(voronoi_sites) ==
    [i \in 1 .. Len(voronoi_sites) |->
        IF i = Len(voronoi_sites) THEN 0
        ELSE IF i = 1 THEN voronoi_sites[1] + voronoi_sites[2]
        ELSE voronoi_sites[i + 1] - voronoi_sites[i - 1]]

\* _is_sorted(isort): the permutation is the identity
is_sorted(isort) == \A i \in 1 .. Len(isort) : isort[i] = i

\* the keys of a state that hold one array entry per cell and are sorted
\* with the sites
sorted_keys == {"voronoi_sites"} \cup free_params
array_keys == sorted_keys \cup {"voronoi_cell_extents"}

\* Every array a saved sample holds is the array object proposed_state held
\* when the sample was saved.  `live` names the keys whose array is still the
\* one proposed_state holds: an in-place write to proposed_state[key] shows
\* in those samples, and binding proposed_state[key] to a new array ends it.
WriteInPlace(saved, key, index, value) ==
    [k \in 1 .. Len(saved) |->
        IF key \in saved[k].live
        THEN [saved[k] EXCEPT ![key] = [@ EXCEPT ![index + 1] = value]]
        ELSE saved[k]]

Rebound(saved, keys) ==
    [k \in 1 .. Len(saved) |-> [saved[k] EXCEPT !.live = @ \ keys]]

\* the world a Model method works on: w.current, w.proposed, w.perturbation
\* (Model) and w.saved (the chain's saved samples, for the arrays they share)
World(current, proposed, perturbation, saved) ==
    [current |-> current, proposed |-> proposed, perturbation |-> perturbation,
     saved |-> saved]

\* Model._sort_proposed_state
sort_proposed_state(w) ==
    LET isort == CHOOSE p \in argsort(w.proposed.voronoi_sites) : TRUE
        sorted ==
            IF ~is_sorted(isort)
            THEN [w EXCEPT
                    !.proposed = [key \in DOMAIN w.proposed |->
                                     IF key \in sorted_keys
                                     THEN take(w.proposed[key], isort)
                                     ELSE w.proposed[key]],
                    !.saved = Rebound(w.saved, sorted_keys)]
            ELSE w
    IN [sorted EXCEPT
          !.proposed.voronoi_cell_extents = get_thickness(sorted.proposed.voronoi_sites),
          !.saved = Rebound(sorted.saved, {"voronoi_cell_extents"})]

\* Model.propose_site_perturbation
propose_site_perturbation(w, isite, site) ==
    LET written ==
            [w EXCEPT !.proposed.voronoi_sites[isite + 1] = site,
                      !.saved = WriteInPlace(w.saved, "voronoi_sites", isite, site)]
    IN [sort_proposed_state(written) EXCEPT !.perturbation.type = "site"]

\* a proposal that writes the new value into current_state as well
propose_free_param_perturbation_into_current(w, name, idx, value) ==
    [w EXCEPT !.proposed[name][idx + 1] = value,
              !.current[name][idx + 1] = value,
              !.saved = WriteInPlace(w.saved, name, idx, value),
              !.perturbation.type = name,
              !.perturbation.idx = idx]

\* Model.propose_free_param_perturbation
propose_free_param_perturbation(w, name, idx, value) ==
    [w EXCEPT !.proposed[name][idx + 1] = value,
              !.saved = WriteInPlace(w.saved, name, idx, value),
              !.perturbation.type = name,
              !.perturbation.idx = idx]

\* Model.propose_birth_perturbation
propose_birth_perturbation(w) ==
    [sort_proposed_state(
         [w EXCEPT !.proposed.n_voronoi_cells = @ + 1])
     EXCEPT !.perturbation.type = "birth"]

\* Model.propose_death_perturbation
propose_death_perturbation(w) ==
    [w EXCEPT !.proposed.n_voronoi_cells = @ - 1,
              !.proposed.voronoi_cell_extents = get_thickness(w.proposed.voronoi_sites),
              !.saved = Rebound(w.saved, {"voronoi_cell_extents"}),
              !.perturbation.type = "death"]

\* Model._finalize_site_perturbation: rejected takes copies of the accepted
\* sites and extents
finalize_site_perturbation(w, accepted) ==
    IF accepted
    THEN [w EXCEPT !.current.voronoi_sites = w.proposed.voronoi_sites,
                   !.current.voronoi_cell_extents = w.proposed.voronoi_cell_extents]
    ELSE [w EXCEPT !.proposed.voronoi_sites = w.current.voronoi_sites,
                   !.proposed.voronoi_cell_extents = w.current.voronoi_cell_extents,
                   !.saved = Rebound(w.saved, {"voronoi_sites", "voronoi_cell_extents"})]

\* Model._finalize_free_param_perturbation: one entry is written in place
finalize_free_param_perturbation(w, accepted) ==
    LET name == w.perturbation.type
        idx == w.perturbation.idx
    IN IF accepted
       THEN [w EXCEPT !.current[name][idx + 1] = w.proposed[name][idx + 1]]
       ELSE [w EXCEPT !.proposed[name][idx + 1] = w.current[name][idx + 1],
                      !.saved = WriteInPlace(w.saved, name, idx,
                                             w.current[name][idx + 1])]

\* Model._finalize_birth_death_perturbation: rejected takes the accepted
\* count and copies of every accepted array
finalize_birth_death_perturbation(w, accepted) ==
    IF accepted
    THEN [w EXCEPT !.current = w.proposed]
    ELSE [w EXCEPT !.proposed = w.current,
                   !.saved = Rebound(w.saved, array_keys)]

\* Model.finalize_perturbation
finalize_perturbation(w, accepted) ==
    CASE w.perturbation.type = "site" -> finalize_site_perturbation(w, accepted)
      [] w.perturbation.type \in {"birth", "death"} ->
            finalize_birth_death_perturbation(w, accepted)
      [] OTHER -> finalize_free_param_perturbation(w, accepted)

\* Parameterization1D.probability_ratio_birth_death_perturbation:
\* log(SQRT_TWO_PI * std / delta) + (perturbed_value - value)^2 / (2 std^2)
probability_ratio_birth_death_perturbation(name, perturbed_site, value, perturbed_value) ==
    (LogStdSqrtTwoPi(vs_perturb_std) - LogDelta(get_delta(name, perturbed_site)))
    + SquareOverTwoVar(perturbed_value - value, vs_perturb_std)

\* Parameterization1D.probability_ratio_site_perturbation: the proposal ratio
\* of a scalar site std is log(std / std) + 0, the prior ratio sums the free
\* parameters' prior_ratio_position_perturbation
probability_ratio_site_perturbation(old_site, new_site) ==
    0 + SumOverParams(free_params,
            [name \in free_params |->
                prior_ratio_position_perturbation(name, old_site, new_site)])

\* Parameterization1D.probability_ratio_free_param_perturbation
probability_ratio_free_param_perturbation(name) == 0

\* what a perturbation function hands back to _next_iteration: the world it
\* left behind, and either its log probability ratio or the exception raised
Perturbed(w, log_prob_ratio) ==
    [w |-> w, log_prob_ratio |-> log_prob_ratio, raised |-> "none"]

PerturbationRaised(w, exc) ==
    [w |-> w, log_prob_ratio |-> 0, raised |-> exc]

\* the new site is redrawn while it is within the tolerance of a site
TooClose(new_site, voronoi_sites) ==
    \E i \in 1 .. Len(voronoi_sites) : Abs(new_site - voronoi_sites[i]) < site_tolerance

\* Parameterization1D.perturbation_voronoi_site, for the draws isite and
\* new_site that end its loop
perturbation_voronoi_site(w, isite, new_site) ==
    LET old_site == w.current.voronoi_sites[isite + 1]
    IN Perturbed(propose_site_perturbation(w, isite, new_site),
                 probability_ratio_site_perturbation(old_site, new_site))

\* Parameterization1D.perturbation_free_param
perturbation_free_param(w, name, isite, new_value) ==
    Perturbed(propose_free_param_perturbation(w, name, isite, new_value),
              probability_ratio_free_param_perturbation(name))

\* Parameterization1D.perturbation_birth, for the draws new_site and
\* new_values (one per free parameter)
perturbation_birth(w, new_site, new_values) ==
    LET old_sites == w.proposed.voronoi_sites
        isite == nearest_index(new_site, old_sites, Len(old_sites))
        prob_ratio ==
            SumOverParams(free_params,
                [name \in free_params |->
                    probability_ratio_birth_death_perturbation(
                        name, new_site, w.current[name][isite + 1], new_values[name])])
        appended ==
            [w EXCEPT
               !.proposed = [key \in DOMAIN w.proposed |->
                   IF key = "voronoi_sites" THEN Append(old_sites, new_site)
                   ELSE IF key \in free_params
                        THEN Append(w.current[key], new_values[key])
                        ELSE w.proposed[key]],
               !.saved = Rebound(w.saved, sorted_keys)]
    IN Perturbed(propose_birth_perturbation(appended), prob_ratio)

\* Parameterization1D.perturbation_death, for the draw isite.  With one cell
\* left new_values is empty and new_values[iclosest] raises IndexError, after
\* proposed_state has taken the emptied arrays.
perturbation_death(w, isite) ==
    LET site_to_remove == w.current.voronoi_sites[isite + 1]
        new_sites == delete(w.current.voronoi_sites, isite)
        removed ==
            [w EXCEPT
               !.proposed = [key \in DOMAIN w.proposed |->
                   IF key = "voronoi_sites" THEN new_sites
                   ELSE IF key \in free_params THEN delete(w.current[key], isite)
                        ELSE w.proposed[key]],
               !.saved = Rebound(w.saved, sorted_keys)]
        iclosest == nearest_index(site_to_remove, new_sites, Len(new_sites))
        prob_ratio ==
            0 - SumOverParams(free_params,
                    [name \in free_params |->
                        probability_ratio_birth_death_perturbation(
                            name, site_to_remove, w.current[name][isite + 1],
                            removed.proposed[name][iclosest + 1])])
    IN IF Len(new_sites) = 0
       THEN PerturbationRaised(removed, "IndexError")
       ELSE Perturbed(propose_death_perturbation(removed), prob_ratio)

\* a birth / death that checks the bounds first, as Voronoi1D.birth and
\* Voronoi1D.death do: nothing is touched when it raises
birth_checked(w, new_site, new_values) ==
    IF w.current.n_voronoi_cells = n_voronoi_cells_max
    THEN PerturbationRaised(w, "DimensionalityException")
    ELSE perturbation_birth(w, new_site, new_values)

death_checked(w, isite) ==
    IF w.current.n_voronoi_cells = n_voronoi_cells_min
    THEN PerturbationRaised(w, "DimensionalityException")
    ELSE perturbation_death(w, isite)

(***************************************************************************)
(* Part II: MarkovChain (bayesbridge/_markov_chain.py)                     *)
(***************************************************************************)
\* advance_chain(n_iterations, burnin_iterations, save_every)
NIterations == 2
\* the misfits the forward model can produce
MaxMisfit == 1
Misfits == 0 .. MaxMisfit
\* log(random.random()) in eighths: a draw near 1 and a draw near 0
LogUNearOne == -1
LogUNearZero == -40
LogUniform == {LogUNearOne, LogUNearZero}
Temperatures == {1, 2}

\* MarkovChain._init_perturbation_funcs
perturbation_types == <<"VoronoiSite", "Birth", "Death", "Param - vs">>

PerturbationTypes == {perturbation_types[i] : i \in 1 .. Len(perturbation_types)}

\* LogLikelihood.__call__(old_misfit, temperature): the log-likelihood ratio
\* (old_misfit - misfit) / (2 temperature) in eighths; infinite while nothing
\* was accepted yet
log_likelihood_ratio(old_misfit, misfit, temperature) ==
    IF old_misfit = inf THEN inf
    ELSE ((old_misfit - misfit) * 4) \div temperature

\* advance_chain: save_model for iteration i
save_model(i) ==
    IF i <= setup.burnin_iterations THEN FALSE
    ELSE ((i - setup.burnin_iterations) % setup.save_every) = 0

\* MarkovChain._save_model(misfit): the misfit handed over and the items of
\* proposed_state, the arrays by reference
save_model_sample(saved, misfit, proposed_state) ==
    Append(saved,
           [misfit |-> misfit,
            n_voronoi_cells |-> proposed_state.n_voronoi_cells,
            voronoi_sites |-> proposed_state.voronoi_sites,
            voronoi_cell_extents |-> proposed_state.voronoi_cell_extents,
            vs |-> proposed_state.vs,
            live |-> array_keys])

\* statistics that book every proposal as accepted in the total
save_statistics_total_accepted(c, perturb_type, accepted) ==
    [c EXCEPT !.proposed_counts[perturb_type] = @ + 1,
              !.accepted_counts[perturb_type] = @ + (IF accepted THEN 1 ELSE 0),
              !.proposed_counts_total = @ + 1,
              !.accepted_counts_total = @ + 1]

\* MarkovChain._save_statistics
save_statistics(c, perturb_type, accepted) ==
    [c EXCEPT !.proposed_counts[perturb_type] = @ + 1,
              !.accepted_counts[perturb_type] = @ + (IF accepted THEN 1 ELSE 0),
              !.proposed_counts_total = @ + 1,
              !.accepted_counts_total = @ + (IF accepted THEN 1 ELSE 0)]

\* an acceptance test that leaves the likelihood out
Accepts_without_likelihood(log_prob_ratio, log_likelihood_ratio_, log_u) ==
    log_prob_ratio > log_u

\* the acceptance test of _next_iteration
Accepts(log_prob_ratio, log_likelihood_ratio_, log_u) ==
    log_prob_ratio + log_likelihood_ratio_ > log_u

\* the misfit the chain keeps after the decision
next_current_misfit(accepted, misfit, current_misfit) ==
    IF accepted THEN misfit ELSE current_misfit

TheWorld == World(model.current_state, model.proposed_state,
                  model.current_perturbation, chain.saved_models)

ModelOf(w) ==
    [current_state |-> w.current, proposed_state |-> w.proposed,
     current_perturbation |-> w.perturbation]

\* the sequence with el repeated n times
repeat(el, n) == [i \in 1 .. n |-> el]

\* lists that hold birth and death whatever trans_d is
init_perturbation_funcs_always_trans_d(trans_d, free_param_names, targets) ==
    [perturbations |->
         <<"parameterization.perturbation_voronoi_site",
           "parameterization.perturbation_birth",
           "parameterization.perturbation_death">>
         \o [i \in 1 .. Len(free_param_names) |->
                "parameterization.perturbation_free_param(" \o free_param_names[i]
                    \o ")"],
     perturbation_types |->
         <<"VoronoiSite", "Birth", "Death">>
         \o [i \in 1 .. Len(free_param_names) |-> "Param - " \o free_param_names[i]],
     finalizations |->
         repeat("parameterization.finalize_perturbation", 3 + Len(free_param_names))]

\* the targets with target.is_hierarchical, in order
RECURSIVE select_hierarchical(_)
select_hierarchical(targets) ==
    IF targets = <<>> THEN <<>>
    ELSE IF Head(targets).is_hierarchical
         THEN <<Head(targets)>> \o select_hierarchical(Tail(targets))
         ELSE select_hierarchical(Tail(targets))

\* MarkovChain._init_perturbation_funcs: the three lists, the routines by
\* the name of the object and method they are bound to
init_perturbation_funcs(trans_d, free_param_names, targets) ==
    LET hierarchical == select_hierarchical(targets)
        perturb_voronoi ==
            <<"parameterization.perturbation_voronoi_site">>
            \o (IF trans_d THEN <<"parameterization.perturbation_birth",
                                  "parameterization.perturbation_death">>
                ELSE <<>>)
        finalize_voronoi ==
            <<"parameterization.finalize_perturbation">>
            \o (IF trans_d THEN <<"parameterization.finalize_perturbation",
                                  "parameterization.finalize_perturbation">>
                ELSE <<>>)
        perturb_types ==
            <<"VoronoiSite">> \o (IF trans_d THEN <<"Birth", "Death">> ELSE <<>>)
    IN [perturbations |->
            perturb_voronoi
            \o [i \in 1 .. Len(free_param_names) |->
                   "parameterization.perturbation_free_param(" \o free_param_names[i]
                       \o ")"]
            \o [i \in 1 .. Len(hierarchical) |->
                   hierarchical[i].name \o ".perturb_covariance"],
        perturbation_types |->
            perturb_types
            \o [i \in 1 .. Len(free_param_names) |-> "Param - " \o free_param_names[i]]
            \o [i \in 1 .. Len(hierarchical) |-> "Target - " \o hierarchical[i].name],
        finalizations |->
            finalize_voronoi
            \o repeat("parameterization.finalize_perturbation", Len(free_param_names))
            \o [i \in 1 .. Len(hierarchical) |->
                   hierarchical[i].name \o ".finalize_perturbation"]]

\* the lists of the chain of this part: the free parameter vs, no
\* hierarchical target
chain_funcs == init_perturbation_funcs(setup.trans_d, <<"vs">>, <<>>)

\* random.randint(0, len(self.perturbations) - 1) can pick this type
registered(perturb_type) ==
    \E perturb_i \in 1 .. Len(chain_funcs.perturbation_types) :
        chain_funcs.perturbation_types[perturb_i] = perturb_type

\* self.finalizations[perturb_i] for the perturb_i of a perturbation type
finalization_of(perturb_type) ==
    chain_funcs.finalizations[
        CHOOSE perturb_i \in 1 .. Len(chain_funcs.perturbation_types) :
            chain_funcs.perturbation_types[perturb_i] = perturb_type]

NoAttempt ==
    [perturb_type |-> "none", outcome |-> "none", log_prob_ratio |-> 0,
     log_likelihood_ratio |-> 0, misfit |-> 0, log_u |-> 0, accepted |-> FALSE,
     saved |-> FALSE, finalized |-> "none", finalizer |-> "none",
     old_misfit |-> 0]

\* a retry that books the failed attempt as a rejected step
RetryAfterDimensionalityException_counted(perturb_type) ==
    /\ attempt' = [NoAttempt EXCEPT !.perturb_type = perturb_type,
                                    !.outcome = "DimensionalityException"]
    /\ chain' = save_statistics(chain, perturb_type, FALSE)
    /\ UNCHANGED <<model, iteration>>

\* the perturbation raised DimensionalityException: `continue`
RetryAfterDimensionalityException(perturb_type) ==
    /\ attempt' = [NoAttempt EXCEPT !.perturb_type = perturb_type,
                                    !.outcome = "DimensionalityException"]
    /\ UNCHANGED <<model, chain, iteration>>

\* the perturbation raised something _next_iteration does not catch: the
\* exception leaves advance_chain and the chain is lost
Crash(perturb_type, r) ==
    /\ attempt' = [NoAttempt EXCEPT !.perturb_type = perturb_type,
                                    !.outcome = r.raised]
    /\ model' = ModelOf(r.w)
    /\ chain' = [chain EXCEPT !.saved_models = r.w.saved]
    /\ UNCHANGED iteration

\* a handler that finalizes the failed proposal as if it had been accepted
RetryAfterForwardException_accepting(perturb_type, r) ==
    LET w == finalize_perturbation(r.w, TRUE)
    IN /\ attempt' = [NoAttempt EXCEPT !.perturb_type = perturb_type,
                                       !.outcome = "ForwardException",
                                       !.log_prob_ratio = r.log_prob_ratio,
                                       !.finalized = "False",
                                       !.finalizer = finalization_of(perturb_type)]
       /\ model' = ModelOf(w)
       /\ chain' = [chain EXCEPT !.saved_models = w.saved]
       /\ UNCHANGED iteration

\* a handler that goes on to the next pass without finalizing
RetryAfterForwardException_unfinalized(perturb_type, r) ==
    /\ attempt' = [NoAttempt EXCEPT !.perturb_type = perturb_type,
                                    !.outcome = "ForwardException",
                                    !.log_prob_ratio = r.log_prob_ratio]
    /\ model' = ModelOf(r.w)
    /\ chain' = [chain EXCEPT !.saved_models = r.w.saved]
    /\ UNCHANGED iteration

\* log_likelihood raised ForwardException: finalize(False) and `continue`
RetryAfterForwardException(perturb_type, r) ==
    LET w == finalize_perturbation(r.w, FALSE)
    IN /\ attempt' = [NoAttempt EXCEPT !.perturb_type = perturb_type,
                                       !.outcome = "ForwardException",
                                       !.log_prob_ratio = r.log_prob_ratio,
                                       !.finalized = "False",
                                       !.finalizer = finalization_of(perturb_type)]
       /\ model' = ModelOf(w)
       /\ chain' = [chain EXCEPT !.saved_models = w.saved]
       /\ UNCHANGED iteration

\* the rest of the loop body: decide, save, finalize, count, return
Complete(perturb_type, r, misfit, log_u) ==
    LET llr == log_likelihood_ratio(chain.current_misfit, misfit, chain.temperature)
        accepted == Accepts(r.log_prob_ratio, llr, log_u)
        saving == save_model(iteration) /\ chain.temperature = 1
        w1 == IF saving
              THEN [r.w EXCEPT !.saved = save_model_sample(r.w.saved, misfit, r.w.proposed)]
              ELSE r.w
        w2 == finalize_perturbation(w1, accepted)
    IN /\ attempt' = [perturb_type |-> perturb_type, outcome |-> "completed",
                      log_prob_ratio |-> r.log_prob_ratio,
                      log_likelihood_ratio |-> llr, misfit |-> misfit,
                      log_u |-> log_u, accepted |-> accepted, saved |-> saving,
                      finalized |-> IF accepted THEN "True" ELSE "False",
                      finalizer |-> finalization_of(perturb_type),
                      old_misfit |-> chain.current_misfit]
       /\ model' = ModelOf(w2)
       /\ chain' = [save_statistics(chain, perturb_type, accepted) EXCEPT
                       !.current_misfit =
                           next_current_misfit(accepted, misfit, chain.current_misfit),
                       !.saved_models = w2.saved]
       /\ iteration' = iteration + 1

\* a forward model that raises ForwardException on every proposal
ForwardOutcomes_always_failing ==
    {[forward_fails |-> TRUE, misfit |-> 0, log_u |-> 0]}

\* what the rest of a pass depends on: the forward model fails, or it yields
\* a misfit and random.random() yields u
ForwardOutcomes ==
    {[forward_fails |-> TRUE, misfit |-> 0, log_u |-> 0]}
    \cup {[forward_fails |-> FALSE, misfit |-> misfit, log_u |-> log_u] :
             misfit \in Misfits, log_u \in LogUniform}

\* one pass through the `while True` loop of _next_iteration, from the
\* perturbation's return on
AfterPerturbation(perturb_type, r) ==
    IF r.raised = "DimensionalityException"
    THEN RetryAfterDimensionalityException(perturb_type)
    ELSE IF r.raised # "none"
    THEN Crash(perturb_type, r)
    ELSE \E drawn \in ForwardOutcomes :
            IF drawn.forward_fails
            THEN RetryAfterForwardException(perturb_type, r)
            ELSE Complete(perturb_type, r, drawn.misfit, drawn.log_u)

\* advance_chain is still inside its loop and the chain was not lost
Running ==
    /\ iteration <= setup.n_iterations
    /\ attempt.outcome \in {"none", "completed", "DimensionalityException",
                            "ForwardException"}

\* perturb_i picks perturbation_voronoi_site
TryVoronoiSite ==
    /\ Running
    /\ registered("VoronoiSite")
    /\ \E isite \in 0 .. model.current_state.n_voronoi_cells - 1, new_site \in Sites :
          /\ ~TooClose(new_site, model.current_state.voronoi_sites)
          /\ AfterPerturbation("VoronoiSite",
                               perturbation_voronoi_site(TheWorld, isite, new_site))
    /\ UNCHANGED <<space_vars, setup, run_vars>>

\* perturb_i picks perturbation_birth
TryBirth ==
    /\ Running
    /\ registered("Birth")
    /\ IF setup.bounds_checked
          /\ model.current_state.n_voronoi_cells = n_voronoi_cells_max
       THEN AfterPerturbation("Birth", birth_checked(TheWorld, 0, <<>>))
       ELSE \E new_site \in Sites :
              /\ ~TooClose(new_site, model.proposed_state.voronoi_sites)
              /\ \E new_values \in
                    [free_params -> vs_vmin(site_lb) .. vs_vmax] :
                    /\ \A name \in free_params :
                          new_values[name] \in
                              uniform_perturb_value(name, new_site,
                                  model.current_state[name][
                                      nearest_index(new_site,
                                          model.proposed_state.voronoi_sites,
                                          Len(model.proposed_state.voronoi_sites)) + 1])
                    /\ AfterPerturbation("Birth",
                          IF setup.bounds_checked
                          THEN birth_checked(TheWorld, new_site, new_values)
                          ELSE perturbation_birth(TheWorld, new_site, new_values))
    /\ UNCHANGED <<space_vars, setup, run_vars>>

\* perturb_i picks perturbation_death
TryDeath ==
    /\ Running
    /\ registered("Death")
    /\ \E isite \in 0 .. model.current_state.n_voronoi_cells - 1 :
          AfterPerturbation("Death",
              IF setup.bounds_checked
              THEN death_checked(TheWorld, isite)
              ELSE perturbation_death(TheWorld, isite))
    /\ UNCHANGED <<space_vars, setup, run_vars>>

\* perturb_i picks perturbation_free_param for "vs"
TryFreeParam ==
    /\ Running
    /\ \E name \in {x \in free_params : registered("Param - " \o x)},
          isite \in 0 .. model.current_state.n_voronoi_cells - 1 :
          \E new_value \in
                uniform_perturb_value(name,
                    model.current_state.voronoi_sites[isite + 1],
                    model.current_state[name][isite + 1]) :
             AfterPerturbation("Param - " \o name,
                 perturbation_free_param(TheWorld, name, isite, new_value))
    /\ UNCHANGED <<space_vars, setup, run_vars>>

NextChain == TryVoronoiSite \/ TryBirth \/ TryDeath \/ TryFreeParam

\* Parameterization1D.initialize: the cell count
cells_init_max ==
    ((n_voronoi_cells_max - n_voronoi_cells_min) * voronoi_cells_init_range) \div 10
    + n_voronoi_cells_min

\* Parameterization1D.initialize with Model.__init__ and add_free_parameter:
\* sorted sites, their extents, one value per site within the parameter's
\* bounds there
InitialValues(sites) ==
    {v \in [1 .. Len(sites) -> vs_vmin(site_lb) .. vs_vmax] :
        \A i \in 1 .. Len(sites) : v[i] \in generate_random_value("vs", sites[i])}

InitialSites(n) == {q \in [1 .. n -> Sites] : StrictlyAscending(q)}

InitialStatesOf(sites) ==
    {[n_voronoi_cells |-> Len(sites), voronoi_sites |-> sites,
      voronoi_cell_extents |-> get_thickness(sites), vs |-> values] :
        values \in InitialValues(sites)}

InitialStates ==
    UNION {InitialStatesOf(sites) :
              sites \in UNION {InitialSites(n) :
                                  n \in n_voronoi_cells_min .. cells_init_max}}

\* MarkovChain.__init__ (_init_statistics, _init_saved_models), a temperature
\* given by BayesianInversion.run, and the arguments of advance_chain
InitChainWith(bounds_checked) ==
    /\ setup \in {[bounds_checked |-> bounds_checked, n_iterations |-> NIterations,
                   burnin_iterations |-> burnin, save_every |-> 1,
                   trans_d |-> TRUE, n_voronoi_cells |-> 0] :
                      burnin \in {0, 1}}
    /\ \E s \in InitialStates :
          model = [current_state |-> s, proposed_state |-> s,
                   current_perturbation |-> [type |-> "none", idx |-> 0]]
    /\ \E temperature \in Temperatures :
          chain = [current_misfit |-> inf, temperature |-> temperature,
                   proposed_counts |-> [t \in PerturbationTypes |-> 0],
                   accepted_counts |-> [t \in PerturbationTypes |-> 0],
                   proposed_counts_total |-> 0, accepted_counts_total |-> 0,
                   saved_models |-> <<>>]
    /\ iteration = 1
    /\ attempt = NoAttempt

IdleSpace ==
    /\ space = "idle"
    /\ ps_state = "idle"
    /\ ret = NoCall
    /\ undone = FALSE

InitChain == IdleSpace /\ IdleRun /\ InitChainWith(FALSE)

InitChainChecked == IdleSpace /\ IdleRun /\ InitChainWith(TRUE)

\* a chain over Parameterization1D as it is
SpecChain == InitChain /\ [][NextChain]_vars

\* Parameterization1D(n_voronoi_cells = n): trans_d is False, the bounds of
\* the cell count are not looked at and initialize() takes n cells
InitChainFixedCells ==
    /\ setup \in {[bounds_checked |-> FALSE, n_iterations |-> NIterations,
                   burnin_iterations |-> burnin, save_every |-> 1,
                   trans_d |-> FALSE, n_voronoi_cells |-> n] :
                      burnin \in {0, 1},
                      n \in n_voronoi_cells_min .. n_voronoi_cells_max + 1}
    /\ \E s \in UNION {InitialStatesOf(sites) :
                         sites \in InitialSites(setup.n_voronoi_cells)} :
          model = [current_state |-> s, proposed_state |-> s,
                   current_perturbation |-> [type |-> "none", idx |-> 0]]
    /\ \E temperature \in Temperatures :
          chain = [current_misfit |-> inf, temperature |-> temperature,
                   proposed_counts |-> [t \in PerturbationTypes |-> 0],
                   accepted_counts |-> [t \in PerturbationTypes |-> 0],
                   proposed_counts_total |-> 0, accepted_counts_total |-> 0,
                   saved_models |-> <<>>]
    /\ iteration = 1
    /\ attempt = NoAttempt

InitChainEither ==
    IdleSpace /\ IdleRun /\ (InitChainWith(FALSE) \/ InitChainFixedCells)

\* chains over a trans-dimensional parameterization and over one with a
\* fixed number of cells
SpecChainEither == InitChainEither /\ [][NextChain]_vars

\* the same chain over birth and death perturbations that check the bounds
SpecChainChecked == InitChainChecked /\ [][NextChain]_vars

(***************************************************************************)
(* Part II: properties                                                     *)
(***************************************************************************)
Completed == attempt.outcome = "completed"

\* the fields of a state or of a saved sample
Fields(s) ==
    [n_voronoi_cells |-> s.n_voronoi_cells, voronoi_sites |-> s.voronoi_sites,
     voronoi_cell_extents |-> s.voronoi_cell_extents, vs |-> s.vs]

LastSaved == chain.saved_models[Len(chain.saved_models)]

\* C6: in a chain over a trans-dimensional Parameterization1D the cell count
\* of the current state stays within n_voronoi_cells_min and
\* n_voronoi_cells_max after any number of iterations.
C6_CellCountWithinBounds ==
    /\ n_voronoi_cells_min <= model.current_state.n_voronoi_cells
    /\ model.current_state.n_voronoi_cells <= n_voronoi_cells_max

\* C7: after finalize_perturbation(accepted), for every kind of move and
\* either decision, current_state and proposed_state are equal in every field.
C7_SynchronizedAfterFinalize ==
    attempt.finalized # "none" => model.current_state = model.proposed_state

\* C8: a saved sample holds the accepted sample of its iteration: the
\* proposal and its misfit when the proposal was accepted, the previous state
\* and the previous misfit when it was rejected.
C8_SavedIsAcceptedSample ==
    (Completed /\ attempt.saved) =>
        IF attempt.accepted
        THEN /\ Fields(LastSaved) = model.proposed_state
             /\ LastSaved.misfit = attempt.misfit
        ELSE /\ Fields(LastSaved) = model.current_state
             /\ LastSaved.misfit = attempt.old_misfit

\* C9: in every completed iteration the proposal is accepted iff
\* log_prob_ratio + log_likelihood_ratio > log(u), and the current misfit is
\* the proposal's misfit when accepted and the previous misfit when rejected.
C9_AcceptedIffRatioExceedsDraw ==
    Completed =>
        /\ attempt.accepted <=>
              (attempt.log_prob_ratio + attempt.log_likelihood_ratio > attempt.log_u)
        /\ chain.current_misfit =
              IF attempt.accepted THEN attempt.misfit ELSE attempt.old_misfit

\* an iteration whose proposal was rejected although its prior and proposal
\* ratio alone exceeded the draw
C9_Witness ==
    /\ Completed
    /\ ~attempt.accepted
    /\ attempt.log_prob_ratio > attempt.log_u
    /\ chain.current_misfit # attempt.misfit

\* C10: an attempt that ends with DimensionalityException changes nothing but
\* the choice of perturbation: no finalize, no counter, no saved sample, no
\* change of current state, proposed state or current misfit, the iteration
\* goes on and the exception stays inside _next_iteration.
C10_DimensionalityRetryChangesNothing ==
    [][attempt'.outcome = "DimensionalityException" =>
          /\ UNCHANGED <<model, chain, iteration>>
          /\ attempt'.finalized = "none"
          /\ Running']_vars

C10_Witness ==
    /\ attempt.outcome = "DimensionalityException"
    /\ attempt.perturb_type = "Birth"
    /\ chain.proposed_counts_total > 0

\* C11: a ForwardException of the log-likelihood is an automatic rejection:
\* finalize is called with accepted = False, the exception stays inside
\* _next_iteration, the current state, the current misfit and the counters
\* are those from before the proposal, and the loop goes on within the same
\* iteration.
C11_ForwardExceptionRejects ==
    [][attempt'.outcome = "ForwardException" =>
          /\ attempt'.finalized = "False"
          /\ model'.current_state = model.current_state
          /\ chain'.current_misfit = chain.current_misfit
          /\ chain'.proposed_counts_total = chain.proposed_counts_total
          /\ chain'.accepted_counts_total = chain.accepted_counts_total
          /\ iteration' = iteration
          /\ Running']_vars

\* the forward model failed on a birth proposed after an accepted iteration
C11_Witness ==
    /\ attempt.outcome = "ForwardException"
    /\ attempt.perturb_type = "Birth"
    /\ chain.current_misfit # inf

\* every result the four perturbation functions of Parameterization1D can
\* return or raise with, called on the world w
SiteProposals(w) ==
    {perturbation_voronoi_site(w, isite, new_site) :
        isite \in 0 .. w.current.n_voronoi_cells - 1,
        new_site \in {site \in Sites : ~TooClose(site, w.current.voronoi_sites)}}

FreeParamProposals(w) ==
    UNION {{perturbation_free_param(w, "vs", isite, new_value) :
               new_value \in uniform_perturb_value("vs",
                                 w.current.voronoi_sites[isite + 1],
                                 w.current.vs[isite + 1])} :
           isite \in 0 .. w.current.n_voronoi_cells - 1}

BirthProposals(w) ==
    UNION {{perturbation_birth(w, new_site, [name \in free_params |-> new_value]) :
               new_value \in uniform_perturb_value("vs", new_site,
                                 w.current.vs[nearest_index(new_site,
                                     w.proposed.voronoi_sites,
                                     Len(w.proposed.voronoi_sites)) + 1])} :
           new_site \in {site \in Sites : ~TooClose(site, w.proposed.voronoi_sites)}}

DeathProposals(w) ==
    {perturbation_death(w, isite) : isite \in 0 .. w.current.n_voronoi_cells - 1}

Proposals(w) ==
    SiteProposals(w) \cup FreeParamProposals(w) \cup BirthProposals(w)
    \cup DeathProposals(w)

\* C12: a proposal of Parameterization1D writes only to proposed_state:
\* whatever the perturbation and its draws, current_state is untouched when
\* the perturbation comes back and still is after finalize_perturbation(False).
C12_ProposalLeavesCurrentState ==
    Running =>
        \A r \in Proposals(TheWorld) :
            /\ r.w.current = model.current_state
            /\ r.raised = "none" =>
                  finalize_perturbation(r.w, FALSE).current = model.current_state

\* a state, reached by an accepted birth, from which a proposal that changes
\* proposed_state can be made, and a rejected proposal lies behind
C12_Witness ==
    /\ Running
    /\ model.current_state.n_voronoi_cells = 2
    /\ attempt.finalized = "False"
    /\ \E r \in Proposals(TheWorld) : r.w.proposed # model.proposed_state

(***************************************************************************)
(* Part I: the array objects a call reads, writes and returns              *)
(***************************************************************************)
\* the array the input state holds under a key
InputObject(key) == "input." \o key

InputObjects(state) == {InputObject(key) : key \in DOMAIN state.param_values}

\* an array handed back as it is: no new object
np_same(object) == object

\* old_sites.copy(): a new array
np_copy(object) == "copy of " \o object

\* values[isort]: indexing with an index array yields a new array
np_take(object) == "take of " \o object

\* insert_scalar(values, index, value) and delete(values, index): the result
\* has another length than values, a new array
insert_scalar_object(object) == "insert into " \o object

delete_object(object) == "delete from " \o object

\* what a call did to array objects: those written in place, those held by
\* the returned state, and the input state as the call left it
NoEffect(state) == [written |-> {}, returned |-> {}, input_after |-> state]

\* Voronoi1D.perturb_value: new_sites = old_sites.copy();
\* new_sites[isite] = new_site; new_sites[isort]; values[isort]
perturb_value_effect(old_ps_state, isite, new_site) ==
    LET old_sites == InputObject("discretization")
        new_sites == np_copy(old_sites)
    IN [written |-> {new_sites},
        returned |-> {np_take(new_sites)}
                     \cup {np_take(InputObject(name)) :
                              name \in DOMAIN old_ps_state.param_values \ {"discretization"}},
        input_after |->
            IF new_sites = old_sites
            THEN [old_ps_state EXCEPT !.param_values.discretization[isite + 1] = new_site]
            ELSE old_ps_state]

\* Voronoi1D.birth and ParameterSpace.birth: every array of the new state
\* comes from insert_scalar; nothing is written in place
birth_effect(old_ps_state, forbidden) ==
    IF forbidden THEN NoEffect(old_ps_state)
    ELSE [written |-> {},
          returned |-> {insert_scalar_object(InputObject(name)) :
                           name \in DOMAIN old_ps_state.param_values},
          input_after |-> old_ps_state]

\* Voronoi1D.death and ParameterSpace.death: every array comes from delete
death_effect(old_ps_state, forbidden) ==
    IF forbidden THEN NoEffect(old_ps_state)
    ELSE [written |-> {},
          returned |-> {delete_object(InputObject(name)) :
                           name \in DOMAIN old_ps_state.param_values},
          input_after |-> old_ps_state]

\* the effects of every call that can be made on the caller's state
CallEffects ==
    {birth_effect(ps_state, BirthForbidden(ps_state.n_dimensions)),
     death_effect(ps_state, DeathForbidden(ps_state.n_dimensions))}
    \cup (IF IsVoronoi
          THEN {perturb_value_effect(ps_state, isite, new_site) :
                   isite \in 0 .. ps_state.n_dimensions - 1,
                   new_site \in Positions}
          ELSE {})

\* C13: birth, death and perturb_value never mutate the state they are
\* given, whether they return or raise: no array of the input is written,
\* the input holds the same values after the call, and the returned state
\* holds no array object of the input.
C13_InputStateNotMutated ==
    \A effect \in CallEffects :
        /\ effect.written \cap InputObjects(ps_state) = {}
        /\ effect.returned \cap InputObjects(ps_state) = {}
        /\ effect.input_after = ps_state

\* a perturb_value call has returned a state that differs from its input,
\* and the caller can make further calls on the result
C13_Witness ==
    /\ Returned
    /\ ret.op = "perturb_value"
    /\ ret.state[1] # ret.arg
    /\ \E effect \in CallEffects : effect.written # {}

(***************************************************************************)
(* Part I: constructing a ParameterSpaceState                              *)
(***************************************************************************)
FieldLenMax == 3

FieldNames == {"discretization", "vs"}

\* the arrays a caller may pass for a field
FieldArrays == UNION {[1 .. k -> Values] : k \in 0 .. FieldLenMax}

\* the arguments of the constructor, each with its Python type
NDimensionsArgs == [type : {"int", "float"}, value : 0 .. NDimMax]

ParamValuesArgs ==
    [type : {"dict", "list"}, items : [FieldNames -> FieldArrays]]

\* ParameterSpaceState.__post_init__: the outcome of the constructor call
post_init(n_dimensions, param_values) ==
    LET arg == [n_dimensions |-> n_dimensions, param_values |-> param_values]
    IN  IF n_dimensions.type # "int"
        THEN Raise("ParameterSpaceState", arg, "TypeError")
        ELSE IF param_values.type # "dict"
        THEN Raise("ParameterSpaceState", arg, "TypeError")
        ELSE IF ~ParameterSpaceStateValid(n_dimensions.value,
                                          param_values.items)
        THEN Raise("ParameterSpaceState", arg, "ValueError")
        ELSE Return("ParameterSpaceState", arg,
                    ParameterSpaceState(n_dimensions.value,
                                        param_values.items), 0, -1, -1)

InitConstruct ==
    /\ space = "idle"
    /\ ps_state = "idle"
    /\ ret = NoCall
    /\ undone = FALSE
    /\ IdleChain
    /\ IdleRun

\* one constructor call
Construct ==
    /\ ret = NoCall
    /\ \E n_dimensions \in NDimensionsArgs, param_values \in ParamValuesArgs :
           ret' = post_init(n_dimensions, param_values)
    /\ UNCHANGED <<space, ps_state, undone, chain_vars, run_vars>>

SpecConstruct == InitConstruct /\ [][Construct]_vars

Constructed == ret.op = "ParameterSpaceState"

\* a dict of fields was passed with an int n_dimensions, and some field's
\* length is not n_dimensions
LengthMismatch ==
    /\ Constructed
    /\ ret.arg.n_dimensions.type = "int"
    /\ ret.arg.param_values.type = "dict"
    /\ \E name \in FieldNames :
           Len(ret.arg.param_values.items[name]) # ret.arg.n_dimensions.value

SitesApart(sites) ==
    \A i, j \in 1 .. Len(sites) :
        i # j => Abs(sites[i] - sites[j]) >= site_tolerance

\* C15: no state returned by a Voronoi1D perturb_value or birth holds two
\* sites closer to each other than the tolerance: a candidate within the
\* tolerance of an existing site is redrawn.
C15_ReturnedSitesApart ==
    (IsVoronoi /\ Returned /\ ret.op \in {"perturb_value", "birth"}) =>
        SitesApart(ret.state[1].param_values.discretization)

\* C15, the part the code keeps: the states a Parameterization1D site move
\* or birth proposes, and the current state of the chain, hold no two sites
\* closer than the tolerance.
C15_ProposedSitesApart ==
    Running =>
        /\ SitesApart(model.current_state.voronoi_sites)
        /\ \A r \in SiteProposals(TheWorld) \cup BirthProposals(TheWorld) :
              SitesApart(r.w.proposed.voronoi_sites)

(***************************************************************************)
(* Part III: BayesianInversion: several chains advanced in rounds, with    *)
(* temperature swaps between the rounds                                    *)
(***************************************************************************)
NChains == 3
RunIterationsMax == 3
SwapEveryMax == 2
BurninMax == 2
\* run(temperature_max): the hottest temperature, chosen so that the ladders
\* of up to three rungs lie on the integer grid
temperature_max == 4
\* run(save_every)
SaveEvery == {1, 2}
\* BayesianInversion(n_cpus)
NCpus == {1, 2}

Max(a, b) == IF a >= b THEN a ELSE b

ones(n) == [i \in 1 .. n |-> 1]

\* numpy.geomspace(start, stop, num) for start = 1 and num <= 3
geomspace(start, stop, num) ==
    IF num = 1 THEN <<start>>
    ELSE IF num = 2 THEN <<start, stop>>
    ELSE <<start, CHOOSE r \in start .. stop : r * r = start * stop, stop>>

\* a ladder with one unit temperature more than asked for
init_temperatures_one_more_unit(n_chains, parallel_tempering, unit_tenths) ==
    IF parallel_tempering
    THEN LET temperatures == ones(Max(2, (n_chains * unit_tenths) \div 10))
         IN IF n_chains - Len(temperatures) > 0
            THEN [raised |-> "none",
                  temperatures |->
                      temperatures \o geomspace(1, temperature_max,
                                                n_chains - Len(temperatures))]
            ELSE [raised |-> "UnboundLocalError", temperatures |-> <<>>]
    ELSE [raised |-> "none", temperatures |-> ones(n_chains)]

\* BayesianInversion._init_temperatures for chains_with_unit_temperature in
\* tenths: int(n_chains * chains_with_unit_temperature) is
\* (n_chains * unit_tenths) \div 10
init_temperatures_with(n_chains, parallel_tempering, unit_tenths) ==
    IF parallel_tempering
    THEN LET temperatures == ones(Max(2, (n_chains * unit_tenths) \div 10) - 1)
         IN IF n_chains - Len(temperatures) > 0
            THEN [raised |-> "none",
                  temperatures |->
                      temperatures \o geomspace(1, temperature_max,
                                                n_chains - Len(temperatures))]
            ELSE [raised |-> "UnboundLocalError", temperatures |-> <<>>]
    ELSE [raised |-> "none", temperatures |-> ones(n_chains)]

\* BayesianInversion._init_temperatures with chains_with_unit_temperature =
\* 0.4: int(n_chains * 0.4) is (2 n_chains) \div 5.  `size` is bound only when
\* n_chains exceeds the number of unit temperatures.
init_temperatures(n_chains, parallel_tempering) ==
    IF parallel_tempering
    THEN LET temperatures == ones(Max(2, (2 * n_chains) \div 5) - 1)
         IN IF n_chains - Len(temperatures) > 0
            THEN [raised |-> "none",
                  temperatures |->
                      temperatures \o geomspace(1, temperature_max,
                                                n_chains - Len(temperatures))]
            ELSE [raised |-> "UnboundLocalError", temperatures |-> <<>>]
    ELSE [raised |-> "none", temperatures |-> ones(n_chains)]

\* MarkovChain as BayesianInversion sees it, with proposed_counts_total for
\* its counters.  `i` is advance_chain's count of finished iterations in the
\* current round, `saved_at` the values of proposed_counts_total at which a
\* sample was saved.
NewChain ==
    [temperature |-> 1, current_misfit |-> inf, proposed_counts_total |-> 0,
     saved_at |-> {}, i |-> 0, status |-> "waiting"]

NoProposal ==
    [chain1 |-> 0, chain2 |-> 0, T1 |-> 0, T2 |-> 0, misfit1 |-> 0,
     misfit2 |-> 0, log_u |-> 0, exchanged |-> FALSE]

\* 1 / T in eighths
InvT(T) == 8 \div T

\* a cadence counted from the start of the call instead of from the burn-in
advance_chain_save_model_from_start(i, burnin_iterations, save_every) ==
    i > burnin_iterations /\ (i % save_every) = 0

\* advance_chain: save_model for the i-th iteration of a round
advance_chain_save_model(i, burnin_iterations, save_every) ==
    IF i <= burnin_iterations THEN FALSE
    ELSE ((i - burnin_iterations) % save_every) = 0

\* one pass of _next_iteration that reaches its end: the forward misfit and
\* the uniform draw decide; a sample is saved only at temperature 1
next_iteration(c, save, misfit, log_u) ==
    LET accepted ==
            Accepts(0, log_likelihood_ratio(c.current_misfit, misfit,
                                            c.temperature), log_u)
    IN [c EXCEPT
          !.current_misfit = next_current_misfit(accepted, misfit, @),
          !.proposed_counts_total = @ + 1,
          !.saved_at = IF save /\ c.temperature = 1
                       THEN @ \cup {c.proposed_counts_total + 1} ELSE @,
          !.i = @ + 1]

\* an acceptance test with the two temperatures the wrong way round
swap_exchanges_reversed(T1, T2, misfit1, misfit2, log_u) ==
    (InvT(T2) - InvT(T1)) * (misfit1 - misfit2) > log_u

\* swap_temperatures: prob > math.log(random.random()), where an infinite
\* misfit makes prob infinite, or not a number (which compares False)
swap_exchanges(T1, T2, misfit1, misfit2, log_u) ==
    IF (misfit1 = inf /\ misfit2 = inf)
       \/ ((misfit1 = inf \/ misfit2 = inf) /\ T1 = T2)
    THEN FALSE
    ELSE (InvT(T1) - InvT(T2)) * (misfit1 - misfit2) > log_u

\* an exchange that reads chain1's temperature after overwriting it
exchange_in_sequence(chains, chain1, chain2) ==
    [chains EXCEPT ![chain1].temperature = chains[chain2].temperature,
                   ![chain2].temperature = chains[chain2].temperature]

\* chain1.temperature = T2; chain2.temperature = T1
exchange(chains, chain1, chain2) ==
    [chains EXCEPT ![chain1].temperature = chains[chain2].temperature,
                   ![chain2].temperature = chains[chain1].temperature]

SomeReturned(chains) ==
    \E c \in 1 .. Len(chains) : chains[c].status = "returned"

\* pool.map / the list comprehension has returned every chain
AllReturned(chains) ==
    \A c \in 1 .. Len(chains) : chains[c].status = "returned"

reduce_burnin_unfloored(burnin_iterations, partial_iterations) ==
    burnin_iterations - partial_iterations

\* burnin_iterations = max(0, burnin_iterations - partial_iterations)
reduce_burnin(burnin_iterations, partial_iterations) ==
    Max(0, burnin_iterations - partial_iterations)

\* The objects behind the chains.  An object is named by a number: 0 is the
\* parameterization and 1 the targets handed to BayesianInversion, and the
\* copy made for chain c of object o is 2 c + o.  What is kept of an object
\* is how many iterations have written to it (a perturbation and a finalize
\* write the parameterization's model, a noise perturbation the targets).
the_parameterization == 0
the_targets == 1

ObjectIds == 0 .. 2 * NChains + 1

\* a chain built on the object it was handed
same_object(object, c) == object

\* deepcopy(self.parameterization), deepcopy(self.targets) for chain c
deepcopy(object, c) == 2 * c + object

RunArgs ==
    [n_iterations : 1 .. RunIterationsMax, burnin_iterations : 0 .. BurninMax,
     save_every : SaveEvery, parallel_tempering : BOOLEAN,
     swap_every : 1 .. SwapEveryMax]

NoArgs ==
    [n_iterations |-> 0, burnin_iterations |-> 0, save_every |-> 0,
     parallel_tempering |-> FALSE, swap_every |-> 0]

NoResults ==
    [concatenate_chains |-> FALSE, trans_d |-> FALSE,
     model |-> [misfits |-> <<>>, n_voronoi_cells |-> <<>>]]

\* the samples at the iterations of `at`, oldest first; a sample is named by
\* its chain and its iteration
RECURSIVE SamplesOf(_, _)
SamplesOf(c, at) ==
    IF at = {} THEN <<>>
    ELSE LET first == CHOOSE g \in at : \A h \in at : g <= h
         IN <<[chain |-> c, at |-> first]>> \o SamplesOf(c, at \ {first})

\* the cell count a chain over a fixed number of cells keeps in saved_models
fixed_n_voronoi_cells == 2

\* MarkovChain.saved_models of chain c, as _init_saved_models and _save_model
\* leave it: a list per key, but the plain cell count when the
\* parameterization is not trans-dimensional
saved_models_of(chains, c, trans_d) ==
    [misfits |-> SamplesOf(c, chains[c].saved_at),
     n_voronoi_cells |-> IF trans_d THEN SamplesOf(c, chains[c].saved_at)
                         ELSE fixed_n_voronoi_cells]

\* isinstance(saved_values, list)
is_list(key, trans_d) == key # "n_voronoi_cells" \/ trans_d

\* a concatenation that puts the later chain first
extend_in_front(so_far, saved_values, extend) ==
    IF extend THEN saved_values \o so_far ELSE Append(so_far, saved_values)

\* results_model[key].extend(saved_values) / .append(saved_values)
extend_or_append(so_far, saved_values, extend) ==
    IF extend THEN so_far \o saved_values ELSE Append(so_far, saved_values)

\* get_results, for one key: the loop over the first n chains
RECURSIVE get_results_key(_, _, _, _, _)
get_results_key(chains, n, key, trans_d, concatenate_chains) ==
    IF n = 0 THEN <<>>
    ELSE extend_or_append(
             get_results_key(chains, n - 1, key, trans_d, concatenate_chains),
             saved_models_of(chains, n, trans_d)[key],
             concatenate_chains /\ is_list(key, trans_d))

get_results(chains, trans_d, concatenate_chains) ==
    [key \in {"misfits", "n_voronoi_cells"} |->
        get_results_key(chains, Len(chains), key, trans_d, concatenate_chains)]

\* BayesianInversion.__init__
InitInversion ==
    /\ IdleSpace
    /\ IdleChain
    /\ IdleStreams
    /\ IdleStates
    /\ \E n_chains \in 1 .. NChains, n_cpus \in NCpus :
          inversion =
              [n_chains |-> n_chains, n_cpus |-> n_cpus, args |-> NoArgs,
               pc |-> "constructed", raised |-> "none",
               chains |-> [c \in 1 .. n_chains |-> NewChain],
               parameterizations |->
                   [c \in 1 .. n_chains |-> deepcopy(the_parameterization, c)],
               targets |-> [c \in 1 .. n_chains |-> deepcopy(the_targets, c)],
               objects |-> [o \in ObjectIds |-> 0],
               ladder |-> <<>>, partial_iterations |-> 0,
               burnin_iterations |-> 0, i_iterations |-> 0, round |-> 0,
               swap_i |-> 0, swap_rounds |-> 0, proposals |-> 0,
               proposal |-> NoProposal, results |-> NoResults]

Others == UNCHANGED <<space_vars, chain_vars, streams, states>>

\* run(...), up to the first dispatch
Run ==
    /\ inversion.pc = "constructed"
    /\ \E args \in RunArgs :
          LET init == init_temperatures(inversion.n_chains,
                                        args.parallel_tempering)
          IN inversion' =
                IF init.raised # "none"
                THEN [inversion EXCEPT !.args = args, !.pc = "raised",
                                       !.raised = init.raised]
                ELSE [inversion EXCEPT
                        !.args = args,
                        !.pc = "map",
                        !.ladder = init.temperatures,
                        !.chains = [c \in 1 .. inversion.n_chains |->
                            [inversion.chains[c] EXCEPT
                                !.temperature = init.temperatures[c]]],
                        !.partial_iterations =
                            IF args.parallel_tempering THEN args.swap_every
                            ELSE args.n_iterations,
                        !.burnin_iterations = args.burnin_iterations]
    /\ Others

Advancing(chains) ==
    {c \in 1 .. Len(chains) : chains[c].status = "advancing"}

Waiting(chains) ==
    {c \in 1 .. Len(chains) : chains[c].status = "waiting"}

\* a worker of the pool takes chain c; with one cpu the chains are advanced
\* one after the other in list order
Dispatch(c) ==
    /\ inversion.pc = "map"
    /\ c \in Waiting(inversion.chains)
    /\ IF inversion.n_cpus > 1
       THEN Cardinality(Advancing(inversion.chains)) < inversion.n_cpus
       ELSE /\ Advancing(inversion.chains) = {}
            /\ \A d \in Waiting(inversion.chains) : c <= d
    /\ inversion' = [inversion EXCEPT !.chains[c].status = "advancing"]
    /\ Others

\* one iteration of advance_chain on chain c; after the last one the chain
\* is returned
Iterate(c) ==
    /\ inversion.pc = "map"
    /\ c \in Advancing(inversion.chains)
    /\ \E misfit \in Misfits, log_u \in LogUniform :
          LET chain_c == inversion.chains[c]
              save == advance_chain_save_model(chain_c.i + 1,
                                               inversion.burnin_iterations,
                                               inversion.args.save_every)
              advanced == next_iteration(chain_c, save, misfit, log_u)
          IN inversion' =
                [inversion EXCEPT
                   !.chains[c] =
                       IF advanced.i = inversion.partial_iterations
                       THEN [advanced EXCEPT !.status = "returned"]
                       ELSE advanced,
                   !.objects =
                       [o \in ObjectIds |->
                           IF o \in {inversion.parameterizations[c],
                                     inversion.targets[c]}
                           THEN @[o] + 1 ELSE @[o]]]
    /\ Others

\* pool.join() / the end of the list comprehension, and the test that ends
\* the loop
Join ==
    /\ inversion.pc = "map"
    /\ AllReturned(inversion.chains)
    /\ LET i_iterations == inversion.i_iterations + inversion.partial_iterations
       IN inversion' =
             [inversion EXCEPT
                !.i_iterations = i_iterations,
                !.round = @ + 1,
                !.swap_i = 0,
                !.pc = IF i_iterations >= inversion.args.n_iterations
                       THEN "returned"
                       ELSE IF inversion.args.parallel_tempering THEN "swap"
                       ELSE "reduce"]
    /\ Others

\* one pass of the loop of swap_temperatures
SwapProposal ==
    /\ inversion.pc = "swap"
    /\ inversion.swap_i < inversion.n_chains
    /\ \E chain1, chain2 \in 1 .. inversion.n_chains, log_u \in LogUniform :
          /\ chain1 # chain2
          /\ LET T1 == inversion.chains[chain1].temperature
                 T2 == inversion.chains[chain2].temperature
                 misfit1 == inversion.chains[chain1].current_misfit
                 misfit2 == inversion.chains[chain2].current_misfit
                 exchanged == swap_exchanges(T1, T2, misfit1, misfit2, log_u)
             IN inversion' =
                   [inversion EXCEPT
                      !.chains = IF exchanged
                                 THEN exchange(@, chain1, chain2) ELSE @,
                      !.swap_i = @ + 1,
                      !.proposals = @ + 1,
                      !.swap_rounds = @ + (IF inversion.swap_i = 0 THEN 1 ELSE 0),
                      !.proposal =
                          [chain1 |-> chain1, chain2 |-> chain2, T1 |-> T1,
                           T2 |-> T2, misfit1 |-> misfit1,
                           misfit2 |-> misfit2, log_u |-> log_u,
                           exchanged |-> exchanged],
                      !.pc = IF inversion.swap_i + 1 = inversion.n_chains
                             THEN "reduce" ELSE "swap"]
    /\ Others

\* the burn-in of the next round, and the next dispatch
NextRound ==
    /\ inversion.pc = "reduce"
    /\ inversion' =
          [inversion EXCEPT
             !.burnin_iterations =
                 reduce_burnin(@, inversion.partial_iterations),
             !.chains = [c \in 1 .. inversion.n_chains |->
                 [inversion.chains[c] EXCEPT !.i = 0, !.status = "waiting"]],
             !.pc = "map"]
    /\ Others

\* get_results(concatenate_chains) after run() has returned
GetResults ==
    /\ inversion.pc = "returned"
    /\ \E trans_d \in BOOLEAN, concatenate_chains \in BOOLEAN :
          inversion' =
              [inversion EXCEPT
                 !.pc = "results",
                 !.results =
                     [concatenate_chains |-> concatenate_chains,
                      trans_d |-> trans_d,
                      model |-> get_results(inversion.chains, trans_d,
                                            concatenate_chains)]]
    /\ Others

NextInversion ==
    \/ Run
    \/ GetResults
    \/ \E c \in 1 .. NChains : Dispatch(c)
    \/ \E c \in 1 .. NChains : Iterate(c)
    \/ Join
    \/ SwapProposal
    \/ NextRound

SpecInversion == InitInversion /\ [][NextInversion]_vars

(***************************************************************************)
(* Part III: properties                                                    *)
(***************************************************************************)
Proposed == inversion.proposal # NoProposal

SwapProduct ==
    (InvT(inversion.proposal.T1) - InvT(inversion.proposal.T2))
        * (inversion.proposal.misfit1 - inversion.proposal.misfit2)

\* C16: swap_temperatures makes one proposal per chain, each on two distinct
\* chains, and exchanges the two temperatures iff
\* (1/T1 - 1/T2)(misfit1 - misfit2) > log(u): always when the product is
\* >= 0, and for a negative product only when log(u) is below it.
C16_SwapRule ==
    /\ inversion.pc \in {"reduce", "map"} /\ inversion.args.parallel_tempering
          => inversion.proposals = inversion.swap_rounds * inversion.n_chains
    /\ Proposed =>
          LET p == inversion.proposal
          IN /\ p.chain1 # p.chain2
             /\ p.exchanged <=> SwapProduct > p.log_u
             /\ SwapProduct >= 0 => p.exchanged
             /\ SwapProduct < 0 /\ p.exchanged => p.log_u < SwapProduct
             /\ inversion.chains[p.chain1].temperature
                   = IF p.exchanged THEN p.T2 ELSE p.T1
             /\ inversion.chains[p.chain2].temperature
                   = IF p.exchanged THEN p.T1 ELSE p.T2

\* an exchange on a negative product, after a full loop of proposals
C16_Witness ==
    /\ inversion.pc = "reduce"
    /\ Proposed
    /\ SwapProduct < 0
    /\ inversion.proposal.exchanged

TemperatureCount(temperatures, T) ==
    Cardinality({c \in 1 .. Len(temperatures) : temperatures[c] = T})

TemperaturesOf(chains) == [c \in 1 .. Len(chains) |-> chains[c].temperature]

SameLadder ==
    \A T \in 1 .. temperature_max :
        TemperatureCount(TemperaturesOf(inversion.chains), T)
            = TemperatureCount(inversion.ladder, T)

\* C17: a swap changes nothing but the temperature of the chains: the
\* temperatures over all chains stay the ladder assigned at the start of
\* run(), whatever the number of proposals and swap rounds, and a swap step
\* leaves every chain's misfit, counters and saved samples as they were.
C17_SwapChangesOnlyTemperatures ==
    /\ [](inversion.pc \in {"map", "swap", "reduce", "returned"} => SameLadder)
    /\ [][inversion.pc = "swap" =>
             \A c \in 1 .. inversion.n_chains :
                 [inversion'.chains[c] EXCEPT
                     !.temperature = inversion.chains[c].temperature]
                   = inversion.chains[c]]_vars

\* an exchange of two different temperatures in the second swap round
C17_Witness ==
    /\ inversion.swap_rounds = 2
    /\ Proposed
    /\ inversion.proposal.exchanged
    /\ inversion.proposal.T1 # inversion.proposal.T2

\* C18: swap_temperatures runs only between rounds: while it runs (and until
\* the next round is dispatched) every chain has been returned by the round's
\* advance_chain, a chain advances only while run() is inside pool.map, and
\* a round starts only after the swap steps of all earlier rounds are done.
C18_SwapOnlyBetweenRounds ==
    /\ inversion.pc \in {"swap", "reduce"} =>
          \A c \in 1 .. inversion.n_chains :
              /\ inversion.chains[c].status = "returned"
              /\ inversion.chains[c].i = inversion.partial_iterations
    /\ Advancing(inversion.chains) # {} => inversion.pc = "map"
    /\ inversion.pc = "map" /\ inversion.args.parallel_tempering =>
          /\ inversion.swap_rounds = inversion.round
          /\ inversion.proposals = inversion.round * inversion.n_chains

\* the swap step after the second round, with a pool of two workers
C18_Witness ==
    /\ inversion.pc = "swap"
    /\ inversion.n_cpus = 2
    /\ inversion.round = 2
    /\ inversion.swap_i = 1

\* C19: when run(n_iterations = N) returns, every chain has performed
\* exactly N iterations
C19_ExactlyNIterations ==
    inversion.pc = "returned" =>
        \A c \in 1 .. inversion.n_chains :
            inversion.chains[c].proposed_counts_total
                = inversion.args.n_iterations

\* C19, the part the code keeps: without tempering there is one round of N
\* iterations; with tempering every chain performs whole rounds of swap_every
\* iterations, the fewest that reach N.
C19_WholeRounds ==
    inversion.pc = "returned" =>
        \A c \in 1 .. inversion.n_chains :
            LET done == inversion.chains[c].proposed_counts_total
            IN IF inversion.args.parallel_tempering
               THEN /\ done = inversion.round * inversion.args.swap_every
                    /\ done >= inversion.args.n_iterations
                    /\ done < inversion.args.n_iterations
                                + inversion.args.swap_every
               ELSE done = inversion.args.n_iterations /\ inversion.round = 1

\* C20: the burn-in handed to advance_chain in round r (counted from 0) is
\* max(0, burnin_iterations - r * swap_every), and no chain saves a sample
\* at a global iteration number <= burnin_iterations.
C20_BurninReduced ==
    /\ inversion.pc = "map" =>
          inversion.burnin_iterations
              = Max(0, inversion.args.burnin_iterations
                          - inversion.round * inversion.args.swap_every)
    /\ inversion.pc \in {"map", "swap", "reduce", "returned"} =>
          \A c \in 1 .. inversion.n_chains :
              \A g \in inversion.chains[c].saved_at :
                  g > inversion.args.burnin_iterations

\* a round whose burn-in was floored at 0, with samples saved in both rounds
C20_Witness ==
    /\ inversion.pc = "map"
    /\ inversion.round = 1
    /\ inversion.args.burnin_iterations = 1
    /\ inversion.args.swap_every = 2
    /\ \E c \in 1 .. inversion.n_chains :
          Cardinality(inversion.chains[c].saved_at) >= 2

\* C21: within one advance_chain call a sample is saved at iteration i
\* (counted from 1) iff i > burnin_iterations, i - burnin_iterations is a
\* multiple of save_every and the chain's temperature is 1; a chain at
\* another temperature saves nothing.
C21_SavedIffCadenceAndCold ==
    [][inversion.pc = "map" =>
          \A c \in 1 .. inversion.n_chains :
              inversion'.chains[c].i = inversion.chains[c].i + 1 =>
                  LET i == inversion'.chains[c].i
                  IN (inversion'.chains[c].saved_at
                          # inversion.chains[c].saved_at)
                     <=> /\ i > inversion.burnin_iterations
                         /\ ((i - inversion.burnin_iterations)
                                % inversion.args.save_every) = 0
                         /\ inversion.chains[c].temperature = 1]_vars

\* a round of two iterations saved every second one: a cold chain has
\* saved, a hot chain has finished the round without saving
C21_Witness ==
    /\ inversion.pc = "map"
    /\ inversion.args.save_every = 2
    /\ \E c, d \in 1 .. inversion.n_chains :
          /\ inversion.chains[c].temperature = 1
          /\ inversion.chains[c].saved_at # {}
          /\ inversion.chains[d].temperature # 1
          /\ inversion.chains[d].i = 2
          /\ inversion.chains[d].saved_at = {}

\* what chain d is made of: its parameterization, its targets, and its
\* misfit, temperature, counters and saved samples
ChainView(inv, d) ==
    [parameterization |-> inv.objects[inv.parameterizations[d]],
     targets |-> inv.objects[inv.targets[d]],
     chain |-> inv.chains[d]]

\* C22: every chain is built on its own copy of the parameterization and of
\* the targets, and an iteration of one chain changes nothing of another
\* chain (parameter state, targets, misfit, counters, saved samples), in any
\* interleaving of the iterations within a round.
C22_ChainsIsolated ==
    /\ [](\A c, d \in 1 .. inversion.n_chains :
             /\ inversion.parameterizations[c] # the_parameterization
             /\ inversion.targets[c] # the_targets
             /\ c # d => /\ inversion.parameterizations[c]
                              # inversion.parameterizations[d]
                         /\ inversion.targets[c] # inversion.targets[d])
    /\ [][inversion.pc = "map" =>
             \A c, d \in 1 .. inversion.n_chains :
                 (c # d /\ inversion'.chains[c].i = inversion.chains[c].i + 1)
                     => ChainView(inversion', d) = ChainView(inversion, d)]_vars

\* two chains in the middle of the same round, one iteration apart
C22_Witness ==
    /\ inversion.pc = "map"
    /\ \E c, d \in 1 .. inversion.n_chains :
          /\ c # d
          /\ {c, d} \subseteq Advancing(inversion.chains)
          /\ inversion.chains[c].i = 1
          /\ inversion.chains[d].i = 0
          /\ ChainView(inversion, c).parameterization = 1
          /\ ChainView(inversion, d).parameterization = 0

(***************************************************************************)
(* Part IV: the random draws.  Every draw of a chain (random.randint,      *)
(* random.uniform, random.normalvariate, random.random) is taken from the  *)
(* generator of the `random` module of the process the chain runs in.  The *)
(* generator is a linear congruential one, a draw is its top bit.          *)
(***************************************************************************)
Modulus == 16
KIterations == 2
\* passes through the loop of _next_iteration a chain is followed for
MaxPasses == 3
\* the forward function raises ForwardException
forward_fails == -1
\* the process of BayesianInversion.run, and the workers of its pool
main_process == 0
NWorkers == 2
\* chains of the BayesianInversion whose draws are followed
NStreamChains == 2
not_started == -1

Seeds == 0 .. Modulus - 1

lcg(state) == (5 * state + 3) % Modulus

\* a seed() that leaves the generator as it was
random_seed_ignored(generator, seed) == generator

\* random.seed(seed)
random_seed(generator, seed) == [state |-> seed, drawn |-> 0]

\* the value of the next draw, and the generator after it
random_bit(generator) == generator.state \div (Modulus \div 2)

advance(generator) ==
    [state |-> lcg(generator.state), drawn |-> generator.drawn + 1]

\* which draw of which process's generator a chain consumed
Drawn(process, generator) == [process |-> process, n |-> generator.drawn]

IsPrefix(a, b) == Len(a) <= Len(b) /\ SubSeq(b, 1, Len(a)) = a

\* the states of the abstract chain, and the forward functions on them
StreamStates == 0 .. 1

Forwards == [StreamStates -> {forward_fails} \cup Misfits]

StreamChain(start) ==
    [x |-> start, current_misfit |-> inf, iterations |-> 0, passes |-> 0,
     trace |-> <<>>, drawn |-> <<>>, process |-> not_started]

PassRecord(perturb_i, outcome, accepted, current_misfit) ==
    [perturb_i |-> perturb_i, outcome |-> outcome, accepted |-> accepted,
     current_misfit |-> current_misfit]

\* one pass through the loop of _next_iteration at temperature 1: perturb_i is
\* drawn, the perturbation draws its proposal, the forward function is called
\* on the proposal, and u is drawn unless the forward function failed
stream_pass(c, generator, forward, process) ==
    LET perturb_i == random_bit(generator)
        g1 == advance(generator)
        d == random_bit(g1)
        g2 == advance(g1)
        proposed == IF perturb_i = 0 THEN d ELSE 1 - c.x
        u == random_bit(g2)
        g3 == advance(g2)
        log_u == IF u = 1 THEN LogUNearOne ELSE LogUNearZero
        misfit == forward[proposed]
        accepted == Accepts(0, log_likelihood_ratio(c.current_misfit, misfit, 1),
                            log_u)
    IN IF misfit = forward_fails
       THEN [chain |->
                [c EXCEPT
                   !.passes = @ + 1,
                   !.trace = Append(@, PassRecord(perturb_i, "ForwardException",
                                                  FALSE, c.current_misfit)),
                   !.drawn = @ \o <<Drawn(process, generator),
                                    Drawn(process, g1)>>],
             generator |-> g2]
       ELSE [chain |->
                [c EXCEPT
                   !.x = IF accepted THEN proposed ELSE @,
                   !.current_misfit = next_current_misfit(accepted, misfit, @),
                   !.iterations = @ + 1,
                   !.passes = @ + 1,
                   !.trace = Append(@, PassRecord(perturb_i, "completed", accepted,
                                next_current_misfit(accepted, misfit,
                                                    c.current_misfit))),
                   !.drawn = @ \o <<Drawn(process, generator),
                                    Drawn(process, g1), Drawn(process, g2)>>],
             generator |-> g3]

Unseeded == [state |-> 0, drawn |-> 0]

\* a chain seeded and advanced on its own, later to be replayed
InitReplay ==
    \E seed \in Seeds, forward \in Forwards, start \in StreamStates :
        streams =
            [mode |-> "replay", phase |-> "first", n_cpus |-> 1,
             seed |-> seed, forward |-> forward, start |-> start,
             chains |-> <<[StreamChain(start) EXCEPT !.process = main_process]>>,
             generators |-> [q \in 0 .. NWorkers |->
                                IF q = main_process
                                THEN random_seed(Unseeded, seed) ELSE Unseeded],
             first_trace |-> <<>>]

\* two chains inside BayesianInversion.run; the generators of the forked
\* workers start in a state the program does not choose.  Only the
\* generators the chains draw from are given more than one seed.
InitShared ==
    \E seed \in Seeds, forward \in Forwards, start \in StreamStates,
       n_cpus \in {1, NWorkers}, worker_seeds \in [1 .. NWorkers -> Seeds] :
        /\ n_cpus = 1 => worker_seeds = [w \in 1 .. NWorkers |-> 0]
        /\ n_cpus # 1 => seed = 0
        /\ streams =
              [mode |-> "inversion", phase |-> "none", n_cpus |-> n_cpus,
               seed |-> seed, forward |-> forward, start |-> start,
               chains |-> [c \in 1 .. NStreamChains |-> StreamChain(start)],
               generators |-> [q \in 0 .. NWorkers |->
                                  IF q = main_process
                                  THEN random_seed(Unseeded, seed)
                                  ELSE IF n_cpus = 1 THEN Unseeded
                                  ELSE random_seed(Unseeded, worker_seeds[q])],
               first_trace |-> <<>>]

InitStreams ==
    /\ IdleSpace
    /\ IdleChain
    /\ IdleInversion
    /\ IdleStates
    /\ InitReplay \/ InitShared

Finished(c) == c.iterations = KIterations

\* the list comprehension takes the chains in order in the main process; a
\* worker of the pool takes a chain when it has none in hand
StartChain(c, process) ==
    /\ streams.mode = "inversion"
    /\ c <= Len(streams.chains)
    /\ streams.chains[c].process = not_started
    /\ IF streams.n_cpus = 1
       THEN /\ process = main_process
            /\ \A b \in 1 .. c - 1 : Finished(streams.chains[b])
       ELSE /\ process # main_process
            /\ \A b \in 1 .. Len(streams.chains) :
                  streams.chains[b].process = process
                      => Finished(streams.chains[b])
    /\ streams' = [streams EXCEPT !.chains[c].process = process]
    /\ UNCHANGED <<space_vars, chain_vars, inversion, states>>

StreamPass(c) ==
    /\ c <= Len(streams.chains)
    /\ streams.chains[c].process # not_started
    /\ ~Finished(streams.chains[c])
    /\ streams.chains[c].passes < MaxPasses
    /\ LET process == streams.chains[c].process
           after == stream_pass(streams.chains[c], streams.generators[process],
                                streams.forward, process)
       IN streams' = [streams EXCEPT !.chains[c] = after.chain,
                                     !.generators[process] = after.generator]
    /\ UNCHANGED <<space_vars, chain_vars, inversion, states>>

\* the same chain from the same starting state after random.seed(seed)
StartReplay ==
    /\ streams.mode = "replay"
    /\ streams.phase = "first"
    /\ Finished(streams.chains[1])
    /\ streams' =
          [streams EXCEPT
             !.phase = "replay",
             !.first_trace = streams.chains[1].trace,
             !.chains = <<[StreamChain(streams.start) EXCEPT
                              !.process = main_process]>>,
             !.generators[main_process] = random_seed(@, streams.seed)]
    /\ UNCHANGED <<space_vars, chain_vars, inversion, states>>

NextStreams ==
    \/ \E c \in 1 .. NStreamChains, process \in 0 .. NWorkers :
          StartChain(c, process)
    \/ \E c \in 1 .. NStreamChains : StreamPass(c)
    \/ StartReplay

SpecStreams == InitStreams /\ [][NextStreams]_vars

(***************************************************************************)
(* Part IV: properties                                                     *)
(***************************************************************************)
\* C23: each chain holds its own stream of random draws: no two chains draw
\* from the same generator, and the draws a chain consumes are that
\* generator's first, second, ... draw whatever the other chains consumed.
C23_OwnStream ==
    streams.mode = "inversion" =>
        \A c, d \in 1 .. Len(streams.chains) :
            /\ \A j \in 1 .. Len(streams.chains[c].drawn) :
                  streams.chains[c].drawn[j].n = j - 1
            /\ c # d =>
                  \A j \in 1 .. Len(streams.chains[c].drawn),
                     k \in 1 .. Len(streams.chains[d].drawn) :
                      streams.chains[c].drawn[j].process
                          # streams.chains[d].drawn[k].process

\* C23, what the code keeps: two chains advanced by different workers of the
\* pool draw from different generators.
C23_WorkersApart ==
    streams.mode = "inversion" =>
        \A c, d \in 1 .. Len(streams.chains) :
            (c # d
             /\ streams.chains[c].process # streams.chains[d].process) =>
                \A j \in 1 .. Len(streams.chains[c].drawn),
                   k \in 1 .. Len(streams.chains[d].drawn) :
                    streams.chains[c].drawn[j] # streams.chains[d].drawn[k]

C24_RetryReplayed ==
    /\ streams.phase = "replay"
    /\ Finished(streams.chains[1])
    /\ \E i \in 1 .. Len(streams.chains[1].trace) :
          streams.chains[1].trace[i].outcome = "ForwardException"

(***************************************************************************)
(* Part III: the results                                                   *)
(***************************************************************************)
RECURSIVE SavedBefore(_)
\* the number of samples of the chains before chain c
SavedBefore(c) ==
    IF c = 1 THEN 0
    ELSE SavedBefore(c - 1) + Cardinality(inversion.chains[c - 1].saved_at)

\* C25: get_results drops and duplicates nothing: with concatenate_chains a
\* key whose per-chain value is a list maps to the chains' lists one after
\* the other in chain order (its length is the sum of the sample counts);
\* otherwise, and for a key whose value is not a list, a key maps to a list
\* with one entry per chain, in chain order.
C25_ResultsAggregateAllChains ==
    inversion.pc = "results" =>
        LET results == inversion.results
            n == inversion.n_chains
            saved(c) == saved_models_of(inversion.chains, c, results.trans_d)
        IN \A key \in {"misfits", "n_voronoi_cells"} :
              IF results.concatenate_chains
                 /\ (key = "misfits" \/ results.trans_d)
              THEN /\ Len(results.model[key]) = SavedBefore(n + 1)
                   /\ \A c \in 1 .. n :
                         \A j \in 1 .. Len(saved(c)[key]) :
                             results.model[key][SavedBefore(c) + j]
                                 = saved(c)[key][j]
              ELSE /\ Len(results.model[key]) = n
                   /\ \A c \in 1 .. n : results.model[key][c] = saved(c)[key]

\* concatenated results of three chains, two of which saved samples
C25_Witness ==
    /\ inversion.pc = "results"
    /\ inversion.results.concatenate_chains
    /\ inversion.n_chains = 3
    /\ Len(inversion.results.model.misfits) >= 3
    /\ \E c, d \in 1 .. 3 :
          /\ c # d
          /\ inversion.chains[c].saved_at # {}
          /\ inversion.chains[d].saved_at # {}

(***************************************************************************)
(* Part I: initialize()                                                    *)
(***************************************************************************)
\* n_dimensions_init_range in tenths: the ends of [0, 1], the default and a
\* value in between
InitRanges == {0, 3, 5, 10}

\* the formula of the docstrings:
\* int((n_dimensions_max - n_dimensions_min) * n_dimensions_init_range
\*     + n_dimensions_max)
init_max_of_docstring(n_dims_min, n_dims_max, init_range) ==
    ((n_dims_max - n_dims_min) * init_range) \div 10 + n_dims_max

\* int((n_dims_max - n_dims_min) * init_range + n_dims_min)
init_max_of(n_dims_min, n_dims_max, init_range) ==
    ((n_dims_max - n_dims_min) * init_range) \div 10 + n_dims_min

\* the draws left in the order they were made
np_unsorted(a) == a

\* numpy.sort(a)
np_sort(a) == take(a, CHOOSE p \in argsort(a) : TRUE)

\* the number of dimensions initialize() starts from
initialize_n_dimensions(config) ==
    IF ~config.trans_d THEN {config.n_dimensions}
    ELSE n_dimensions_min ..
             init_max_of(n_dimensions_min, n_dimensions_max, config.init_range)

\* Voronoi1D.initialize for the drawn sites and values
Voronoi1D_initialize_with(n, drawn_sites, values) ==
    ParameterSpaceState(n, [discretization |-> np_sort(drawn_sites),
                            vs |-> values])

\* ParameterSpace.initialize for the drawn values
ParameterSpace_initialize_with(n, values) ==
    ParameterSpaceState(n, [vs |-> values])

InitConfigs ==
    [kind : {"Voronoi1D", "ParameterSpace"}, birth_from : {"prior"},
     positioned : {ParamNames},
     trans_d : BOOLEAN, n_dimensions : n_dimensions_min .. n_dimensions_max,
     init_range : InitRanges]

InitInitialize ==
    /\ space \in InitConfigs
    /\ ps_state = "idle"
    /\ ret = NoCall
    /\ undone = FALSE
    /\ IdleChain
    /\ IdleRun

Initialize ==
    /\ ret = NoCall
    /\ \E n \in initialize_n_dimensions(space) :
          \E drawn_sites \in [1 .. n -> Positions],
             values \in [1 .. n -> {v \in Values :
                                      v \in param_initialize("vs", 0)}] :
              LET state == IF IsVoronoi
                           THEN Voronoi1D_initialize_with(n, drawn_sites, values)
                           ELSE ParameterSpace_initialize_with(n, values)
              IN /\ ret' = Return("initialize", ParameterSpaceState(0, <<>>),
                                   state, 0, -1, -1)
                 /\ ps_state' = state
    /\ UNCHANGED <<space, undone, chain_vars, run_vars>>

SpecInitialize == InitInitialize /\ [][Initialize]_vars

Initialized == ret.op = "initialize"

\* C26: initialize() returns a state whose n_dimensions lies within
\* n_dimensions_min and n_dimensions_max on a trans-dimensional space (init
\* range between 0 and 1) and is the fixed number otherwise, whose sites lie
\* within [vmin, vmax] in ascending order, and whose arrays all have length
\* n_dimensions.
C26_InitialStateWellFormed ==
    Initialized =>
        LET state == ret.state[1]
        IN /\ space.trans_d =>
                 /\ n_dimensions_min <= state.n_dimensions
                 /\ state.n_dimensions <= n_dimensions_max
           /\ ~space.trans_d => state.n_dimensions = space.n_dimensions
           /\ IsVoronoi =>
                 /\ \A i \in 1 .. Len(state.param_values.discretization) :
                       /\ vmin <= state.param_values.discretization[i]
                       /\ state.param_values.discretization[i] <= vmax
                 /\ Ascending(state.param_values.discretization)
           /\ \A name \in DOMAIN state.param_values :
                 Len(state.param_values[name]) = state.n_dimensions

\* a trans-dimensional Voronoi space started with the most cells its init
\* range allows, on sites at both ends of the domain
C26_Witness ==
    /\ Initialized
    /\ IsVoronoi
    /\ space.trans_d
    /\ space.init_range = 10
    /\ ret.state[1].n_dimensions = n_dimensions_max
    /\ ret.state[1].param_values.discretization[1] = vmin
    /\ ret.state[1].param_values.discretization[n_dimensions_max] = vmax

(***************************************************************************)
(* Part V: State and its cache                                             *)
(***************************************************************************)
MaxStateObjects == 2
MaxStateValue == 1

\* the keys of param_values
StateParamNames == {"voronoi", "noise"}

\* the ParameterSpaceState or DataNoise instances a key can be set to
StateValues == 0 .. MaxStateValue

CacheNames == {"extents"}

\* arguments of set_param_values: a name that is a str or not, values that
\* are a ParameterSpaceState / DataNoise instance or not
SetParamValuesArgs ==
    [name_is_str : BOOLEAN, param_name : StateParamNames,
     is_instance : BOOLEAN, values : StateValues]

\* State(param_values): cache and extra_storage start empty
NewState(param_values) ==
    [param_values |-> param_values, attributes |-> param_values,
     cache |-> <<>>, raised |-> "none"]

\* State.set_param_values
set_param_values(self, arg) ==
    IF arg.name_is_str
    THEN IF ~arg.is_instance
         THEN [self EXCEPT !.raised = "TypeError"]
         ELSE [self EXCEPT !.param_values[arg.param_name] = arg.values,
                           !.attributes[arg.param_name] = arg.values,
                           !.raised = "none"]
    ELSE [self EXCEPT !.raised = "ValueError"]

\* State.has_cache
has_cache(self, name) == name \in DOMAIN self.cache

\* State.load_cache
load_cache(self, name) == self.cache[name]

\* State.store_cache
store_cache(self, name, value) ==
    [self EXCEPT !.cache = [n \in DOMAIN self.cache \cup {name} |->
                               IF n = name THEN value ELSE self.cache[n]],
                 !.raised = "none"]

\* State.copy
State_copy(self) == NewState(self.param_values)

\* a quantity a forward function derives from the parameter values and
\* memoizes, kept together with the values it was derived from
derived(param_values) ==
    [value |-> 1 + param_values["voronoi"] + 2 * param_values["noise"],
     computed_from |-> param_values]

InitStates ==
    /\ IdleSpace
    /\ IdleChain
    /\ IdleInversion
    /\ IdleStreams
    /\ \E param_values \in [StateParamNames -> StateValues] :
          states = <<NewState(param_values)>>

OthersOfStates ==
    UNCHANGED <<space_vars, chain_vars, inversion, streams>>

SetParamValues(o) ==
    /\ o <= Len(states)
    /\ \E arg \in SetParamValuesArgs :
          states' = [states EXCEPT ![o] = set_param_values(states[o], arg)]
    /\ OthersOfStates

StoreCache(o) ==
    /\ o <= Len(states)
    /\ \E name \in CacheNames :
          states' = [states EXCEPT ![o] =
                        store_cache(states[o], name,
                                    derived(states[o].param_values))]
    /\ OthersOfStates

Copy(o) ==
    /\ o <= Len(states)
    /\ Len(states) < MaxStateObjects
    /\ states' = Append(states, State_copy(states[o]))
    /\ OthersOfStates

NextStates ==
    \E o \in 1 .. MaxStateObjects :
        \/ SetParamValues(o)
        \/ StoreCache(o)
        \/ Copy(o)

SpecStates == InitStates /\ [][NextStates]_vars

\* C27: no State reports, through has_cache / load_cache, a value that was
\* computed from parameter values which have since been replaced.
C27_CacheNeverStale ==
    \A o \in 1 .. Len(states) :
        \A name \in CacheNames :
            has_cache(states[o], name) =>
                load_cache(states[o], name) = derived(states[o].param_values)

\* a copy starts without the cache of the State it was copied from
C27_CopyHasNoCache ==
    [][\A o \in 1 .. MaxStateObjects :
           Copy(o) => states'[Len(states')].cache = <<>>]_vars

\* set_param_values leaves the cache as it was
C27_SetParamValuesKeepsCache ==
    [][\A o \in 1 .. MaxStateObjects :
           SetParamValues(o) => states'[o].cache = states[o].cache]_vars

(***************************************************************************)
(* Part I: where the sites lie                                             *)
(***************************************************************************)
WithinBounds(sites) ==
    \A i \in 1 .. Len(sites) : vmin <= sites[i] /\ sites[i] <= vmax

\* how many sites lie at position p
SiteCount(sites, p) == Cardinality({i \in 1 .. Len(sites) : sites[i] = p})

\* the same positions, whatever their order
SamePositions(a, b) ==
    /\ Len(a) = Len(b)
    /\ \A i \in 1 .. Len(a) : SiteCount(a, a[i]) = SiteCount(b, a[i])

\* C28: every site of every state Voronoi1D produces lies within
\* [vmin, vmax]; perturb_value replaces the position of the one site it was
\* given by a position inside the bounds and keeps all the others; birth adds
\* one site inside the bounds and keeps the existing positions as they were.
C28_SitesWithinBounds ==
    IsVoronoi =>
        /\ WithinBounds(ps_state.param_values.discretization)
        /\ (Returned /\ ret.op = "perturb_value") =>
              /\ vmin <= ret.site /\ ret.site <= vmax
              /\ SamePositions(ret.state[1].param_values.discretization,
                               [ret.arg.param_values.discretization
                                   EXCEPT ![ret.index + 1] = ret.site])
        /\ (Returned /\ ret.op = "birth") =>
              /\ vmin <= ret.site /\ ret.site <= vmax
              /\ ret.state[1].param_values.discretization[ret.index + 1] = ret.site
              /\ delete(ret.state[1].param_values.discretization, ret.index)
                     = ret.arg.param_values.discretization

\* a site at the lower bound was moved to the upper bound, past another site
C28_Witness ==
    /\ IsVoronoi
    /\ Returned
    /\ ret.op = "perturb_value"
    /\ ret.arg.n_dimensions = 2
    /\ ret.arg.param_values.discretization[ret.index + 1] = vmin
    /\ ret.site = vmax
    /\ ret.index = 0

\* a birth put a new site at a bound, in front of or behind the existing one
C28_WitnessBirth ==
    /\ IsVoronoi
    /\ Returned
    /\ ret.op = "birth"
    /\ ret.site \in {vmin, vmax}

(***************************************************************************)
(* Part I: the log ratio of perturb_value                                  *)
(***************************************************************************)
\* a Voronoi1D whose free parameter has a position or has none, holding any
\* state initialize can return with the widest init range
InitPerturbValue ==
    /\ space \in [kind : {"Voronoi1D"}, birth_from : {"prior"},
                  positioned : SUBSET ParamNames]
    /\ ps_state \in
          UNION {{Voronoi1D_initialize_with(n, drawn_sites, values) :
                      drawn_sites \in [1 .. n -> Positions],
                      values \in [1 .. n -> Values]} :
                 n \in n_dimensions_min ..
                           init_max_of(n_dimensions_min, n_dimensions_max, 10)}
    /\ ret = NoCall
    /\ undone = FALSE
    /\ IdleChain
    /\ IdleRun

SpecPerturbValue == InitPerturbValue /\ [][PerturbValue]_vars

\* C29: the log ratio perturb_value returns is the sum, over the free
\* parameters whose prior depends on position, of log_prior(v, new_site)
\* - log_prior(v, old_site), v being the value at the moved site before the
\* move; nothing is added for the proposal, and the ratio is 0 when no free
\* parameter depends on position.
C29_PerturbValueLogRatio ==
    (Returned /\ ret.op = "perturb_value") =>
        LET old_site == ret.arg.param_values.discretization[ret.index + 1]
            difference ==
                [name \in ParamNames |->
                    IF name \in space.positioned
                    THEN log_prior(name, ret.arg.param_values[name][ret.index + 1],
                                   ret.site)
                         - log_prior(name, ret.arg.param_values[name][ret.index + 1],
                                     old_site)
                    ELSE 0]
        IN /\ ret.log[1] = SumOverParams(ParamNames, difference)
           /\ space.positioned = {} => ret.log[1] = 0

\* a site moved past its neighbour, whose value differs, to where the prior
\* of the positioned parameter is another one
C29_Witness ==
    /\ Returned
    /\ ret.op = "perturb_value"
    /\ space.positioned = ParamNames
    /\ ret.arg.n_dimensions = 2
    /\ ret.arg.param_values.vs[1] # ret.arg.param_values.vs[2]
    /\ ret.state[1].param_values.vs # ret.arg.param_values.vs
    /\ ret.log[1] # 0

\* the same move on a space whose parameter has no position
C29_WitnessNoPosition ==
    /\ Returned
    /\ ret.op = "perturb_value"
    /\ space.positioned = {}
    /\ ret.site # ret.arg.param_values.discretization[ret.index + 1]

(***************************************************************************)
(* Part I: the log ratio of a birth from neighbour                         *)
(***************************************************************************)
\* the standard deviation perturb_value(value, position) draws with: the one
\* of the position it is given
perturb_value_std(name, value, position) == get_perturb_std(name, position)

\* log prior of the newborn values at the new site plus the log of the
\* inverse of a Gaussian density centred on the nearest site's value, with
\* the standard deviation std[name]
BirthFromNeighbourRatio(std) ==
    LET old_sites == ret.arg.param_values.discretization
        i_nearest == nearest_index(ret.site, old_sites, Len(old_sites))
        term ==
            [name \in ParamNames |->
                LET new_value == ret.state[1].param_values[name][ret.index + 1]
                    old_value == ret.arg.param_values[name][i_nearest + 1]
                IN log_prior(name, new_value, ret.site)
                   + LogStdSqrtTwoPi(std[name])
                   + SquareOverTwoVar(new_value - old_value, std[name])]
    IN SumOverParams(ParamNames, term)

BornFromNeighbour ==
    /\ IsVoronoi
    /\ space.birth_from = "neighbour"
    /\ Returned
    /\ ret.op = "birth"

\* C30: the log ratio of a birth from neighbour is the log prior of each
\* newborn value at the new site plus the log of the inverse of the Gaussian
\* density it was drawn from: centred on the value at the nearest existing
\* site, with the standard deviation the draw was made with.
C30_RatioUsesStdOfTheDraw ==
    BornFromNeighbour =>
        ret.log[1] =
            BirthFromNeighbourRatio(
                [name \in ParamNames |->
                    LET old_sites == ret.arg.param_values.discretization
                        i_nearest == nearest_index(ret.site, old_sites,
                                                   Len(old_sites))
                    IN perturb_value_std(
                           name, ret.arg.param_values[name][i_nearest + 1],
                           ret.site)])

\* what the ratio is computed with: the standard deviation at the nearest
\* existing site
C30_RatioUsesStdAtOldSite ==
    BornFromNeighbour =>
        ret.log[1] =
            BirthFromNeighbourRatio(
                [name \in ParamNames |->
                    LET old_sites == ret.arg.param_values.discretization
                        i_nearest == nearest_index(ret.site, old_sites,
                                                   Len(old_sites))
                    IN get_perturb_std(name, old_sites[i_nearest + 1])])

\* a birth from neighbour whose new site has another standard deviation
\* than its nearest site
C30_StdDiffers ==
    /\ BornFromNeighbour
    /\ LET old_sites == ret.arg.param_values.discretization
           i_nearest == nearest_index(ret.site, old_sites, Len(old_sites))
       IN get_perturb_std("vs", old_sites[i_nearest + 1])
              # get_perturb_std("vs", ret.site)

(***************************************************************************)
(* Part II: perturbations and their finalize routines                      *)
(***************************************************************************)
FreeParamLists == {<<>>, <<"vs">>, <<"vs", "vp">>}

TargetLists ==
    LET targets == [name : {"rayleigh", "love"}, is_hierarchical : BOOLEAN]
    IN {<<>>} \cup {<<t>> : t \in targets}
       \cup UNION {{<<t, u>> : u \in {x \in targets : x.name # t.name}} :
                      t \in targets}

\* the three lists are as long as each other, the routine finalizing a
\* parameterization move is the parameterization's and the one finalizing a
\* target's move is that target's own
ListsAligned(funcs) ==
    /\ Len(funcs.perturbations) = Len(funcs.perturbation_types)
    /\ Len(funcs.perturbations) = Len(funcs.finalizations)
    /\ \A i \in 1 .. Len(funcs.perturbations) :
          \/ /\ \E name \in {"rayleigh", "love"} :
                   /\ funcs.perturbations[i] = name \o ".perturb_covariance"
                   /\ funcs.perturbation_types[i] = "Target - " \o name
                   /\ funcs.finalizations[i] = name \o ".finalize_perturbation"
          \/ /\ \A name \in {"rayleigh", "love"} :
                   funcs.perturbations[i] # name \o ".perturb_covariance"
             /\ funcs.finalizations[i] = "parameterization.finalize_perturbation"

\* C31: a pass of _next_iteration whose perturbation returned a log ratio
\* has called the finalize routine registered at the perturbation's index,
\* once, with the decision (False when the forward model failed); a pass
\* whose perturbation raised has called none; and the lists of
\* perturbations, types and finalize routines are of one length.
C31_PerturbationFinalized ==
    /\ \A trans_d \in BOOLEAN, free_param_names \in FreeParamLists,
          targets \in TargetLists :
          ListsAligned(init_perturbation_funcs(trans_d, free_param_names, targets))
    /\ setup.trans_d => chain_funcs.perturbation_types = perturbation_types
    /\ attempt.outcome = "completed" =>
          /\ attempt.finalizer = "parameterization.finalize_perturbation"
          /\ attempt.finalized = (IF attempt.accepted THEN "True" ELSE "False")
    /\ attempt.outcome = "ForwardException" =>
          /\ attempt.finalizer = "parameterization.finalize_perturbation"
          /\ attempt.finalized = "False"
    /\ attempt.outcome = "DimensionalityException" =>
          /\ attempt.finalizer = "none"
          /\ attempt.finalized = "none"

\* a pass ended by ForwardException after a birth was proposed
C31_Witness ==
    /\ attempt.outcome = "ForwardException"
    /\ attempt.perturb_type = "Birth"
    /\ attempt.finalized = "False"

(***************************************************************************)
(* Part II: the counters                                                   *)
(***************************************************************************)
\* C32: the total proposed counter is the number of completed iterations and
\* the sum of the proposed counters of the move types, the total accepted
\* counter is the sum of the accepted counters of the move types, accepted
\* never exceeds proposed for a move type or in total, and a pass ended by
\* DimensionalityException or ForwardException changes no counter.
C32_CountersConsistent ==
    /\ [](/\ chain.proposed_counts_total = iteration - 1
          /\ chain.proposed_counts_total
                 = SumOverParams(PerturbationTypes, chain.proposed_counts)
          /\ chain.accepted_counts_total
                 = SumOverParams(PerturbationTypes, chain.accepted_counts)
          /\ chain.accepted_counts_total <= chain.proposed_counts_total
          /\ \A t \in PerturbationTypes :
                chain.accepted_counts[t] <= chain.proposed_counts[t])
    /\ [][attempt'.outcome \in {"DimensionalityException", "ForwardException"} =>
             /\ chain'.proposed_counts = chain.proposed_counts
             /\ chain'.accepted_counts = chain.accepted_counts
             /\ chain'.proposed_counts_total = chain.proposed_counts_total
             /\ chain'.accepted_counts_total = chain.accepted_counts_total]_vars

\* two iterations of different move types, one accepted and one rejected,
\* with a retry in between
C32_Witness ==
    /\ chain.proposed_counts_total = 2
    /\ chain.accepted_counts_total = 1
    /\ \E t \in PerturbationTypes :
          chain.proposed_counts[t] = 1 /\ chain.accepted_counts[t] = 0
    /\ \E t \in PerturbationTypes :
          chain.proposed_counts[t] = 1 /\ chain.accepted_counts[t] = 1

\* a retry after DimensionalityException once an iteration was counted
C32_WitnessRetry ==
    /\ attempt.outcome = "DimensionalityException"
    /\ chain.proposed_counts_total = 1

(***************************************************************************)
(* Part II: a fixed number of cells                                        *)
(***************************************************************************)
\* ParameterSpace._init_perturbation_funcs: the classes of the perturbation
\* functions it lists
ParameterSpace_init_perturbation_funcs(trans_d, parameters) ==
    (IF parameters # {} THEN <<"ParamPerturbation">> ELSE <<>>)
    \o (IF trans_d THEN <<"BirthPerturbation", "DeathPerturbation">> ELSE <<>>)

\* ParameterSpace.__init__: the bounds of the number of dimensions it keeps;
\* n_dimensions = 0 stands for None
ParameterSpace_bounds(n_dimensions, n_dims_min, n_dims_max) ==
    LET trans_d == n_dimensions = 0
    IN [trans_d |-> trans_d,
        n_dimensions_min |-> IF trans_d THEN n_dims_min ELSE n_dimensions,
        n_dimensions_max |-> IF trans_d THEN n_dims_max ELSE n_dimensions]

\* C33: with a fixed number of cells configured, neither birth nor death is
\* among the perturbations, whatever the bounds of the cell count are, and the
\* current and the proposed state keep the configured number of cells.
C33_FixedCellCount ==
    ~setup.trans_d =>
        /\ \A parameters \in SUBSET ParamNames :
              \A i \in DOMAIN ParameterSpace_init_perturbation_funcs(FALSE, parameters) :
                  ParameterSpace_init_perturbation_funcs(FALSE, parameters)[i]
                      \notin {"BirthPerturbation", "DeathPerturbation"}
        /\ \A n_dims_min \in 1 .. 2, n_dims_max \in 2 .. 3 :
              LET kept == ParameterSpace_bounds(setup.n_voronoi_cells,
                                                n_dims_min, n_dims_max)
              IN /\ ~kept.trans_d
                 /\ kept.n_dimensions_min = setup.n_voronoi_cells
                 /\ kept.n_dimensions_max = setup.n_voronoi_cells
        /\ ~registered("Birth")
        /\ ~registered("Death")
        /\ model.current_state.n_voronoi_cells = setup.n_voronoi_cells
        /\ model.proposed_state.n_voronoi_cells = setup.n_voronoi_cells
        /\ Len(model.current_state.voronoi_sites) = setup.n_voronoi_cells
        /\ attempt.perturb_type \notin {"Birth", "Death"}

\* a chain of more cells than n_voronoi_cells_max allows, after two
\* iterations one of which changed a value
C33_Witness ==
    /\ ~setup.trans_d
    /\ setup.n_voronoi_cells > n_voronoi_cells_max
    /\ chain.proposed_counts_total = 2
    /\ chain.accepted_counts["Param - vs"] >= 1

(***************************************************************************)
(* Part III: the temperature ladder                                        *)
(***************************************************************************)
\* the largest n_chains for which the ladder is on the integer grid
n_chains_ladder_max == 4

\* chains_with_unit_temperature in tenths, from 0 to 1
UnitTenths == 0 .. 10

\* q starts at 1, has a constant ratio between neighbours and, when it has
\* more than one entry, ends at temperature_max
GeometricFromOne(q) ==
    /\ Len(q) >= 1
    /\ q[1] = 1
    /\ Len(q) >= 2 => q[Len(q)] = temperature_max
    /\ \A i \in 1 .. Len(q) - 2 : q[i + 1] * q[i + 1] = q[i] * q[i + 2]

\* _init_temperatures over every number of chains and every share of unit
\* temperatures: ones, then a geometric sequence up to temperature_max
LadderOnesThenGeometric ==
    \A n_chains \in 2 .. n_chains_ladder_max, unit_tenths \in UnitTenths :
        LET init == init_temperatures_with(n_chains, TRUE, unit_tenths)
            t == init.temperatures
            unit == Max(2, (n_chains * unit_tenths) \div 10) - 1
        IN /\ init.raised = "none"
           /\ Len(t) = n_chains
           /\ \A i \in 1 .. Len(t) : 1 <= t[i] /\ t[i] <= temperature_max
           /\ \A i \in 1 .. unit : t[i] = 1
           /\ GeometricFromOne(SubSeq(t, unit + 1, n_chains))
           /\ init_temperatures_with(n_chains, FALSE, unit_tenths)
                  = [raised |-> "none", temperatures |-> [i \in 1 .. n_chains |-> 1]]

\* run() leaves chains_with_unit_temperature at its default of 0.4
LadderOfRun ==
    \A n_chains \in 1 .. n_chains_ladder_max, parallel_tempering \in BOOLEAN :
        init_temperatures(n_chains, parallel_tempering)
            = init_temperatures_with(n_chains, parallel_tempering, 4)

C35_SavedSamplesAreSnapshots ==
    [][\A k \in 1 .. Len(chain.saved_models) :
           /\ Fields(chain'.saved_models[k]) = Fields(chain.saved_models[k])
           /\ chain'.saved_models[k].misfit = chain.saved_models[k].misfit]_vars

\* the misfit and the cell count of a saved sample, which are plain numbers,
\* stay as they were saved
C35_SavedNumbersKept ==
    [][\A k \in 1 .. Len(chain.saved_models) :
           /\ chain'.saved_models[k].misfit = chain.saved_models[k].misfit
           /\ chain'.saved_models[k].n_voronoi_cells
                  = chain.saved_models[k].n_voronoi_cells]_vars

\* ------------------------------------------------------------------
\* Part III, continued: the saved iterations of a run in rounds
\* ------------------------------------------------------------------

\* the iterations a single call advance_chain(n, burnin_iterations,
\* save_every) saves among its first n
SingleRoundSaved(n, burnin_iterations, save_every) ==
    {g \in 1 .. n :
        advance_chain_save_model(g, burnin_iterations, save_every)}

Started == inversion.pc \in {"map", "swap", "reduce", "returned", "results"}

\* every rung of the ladder is 1, so that every chain stays at temperature 1
\* whatever the swaps do
AllCold == \A c \in 1 .. inversion.n_chains : inversion.ladder[c] = 1

\* C36: for a chain that stays at temperature 1, a run split into tempering
\* rounds of swap_every iterations saves the same iterations as a run in
\* one round: global iteration g is saved iff g > burnin_iterations and
\* g - burnin_iterations is a multiple of save_every.
C36_RoundsKeepSavedIterations ==
    (Started /\ inversion.args.parallel_tempering /\ AllCold) =>
        \A c \in 1 .. inversion.n_chains :
            inversion.chains[c].saved_at =
                SingleRoundSaved(inversion.chains[c].proposed_counts_total,
                                 inversion.args.burnin_iterations,
                                 inversion.args.save_every)

\* without tempering the run is one round, and the saved iterations are
\* those of the rule
C36_OneRoundSavedIterations ==
    (Started /\ ~inversion.args.parallel_tempering) =>
        \A c \in 1 .. inversion.n_chains :
            inversion.chains[c].saved_at =
                SingleRoundSaved(inversion.chains[c].proposed_counts_total,
                                 inversion.args.burnin_iterations,
                                 inversion.args.save_every)

\* ------------------------------------------------------------------
\* Part II, continued: the values and the bounds at their sites
\* ------------------------------------------------------------------

\* value lies within [vmin, vmax] of parameter name at position
ValueWithinBounds(name, position, value) ==
    /\ get_vmin_vmax(name, position)[1] <= value
    /\ value <= get_vmin_vmax(name, position)[2]

ValuesWithinBounds(state) ==
    \A i \in 1 .. Len(state.voronoi_sites) :
        ValueWithinBounds("vs", state.voronoi_sites[i], state.vs[i])

\* C37: in every current state of a chain, each value of the free parameter
\* lies within [vmin, vmax] at the position of the site of its cell, also
\* with bounds that vary with the position and after accepted site moves,
\* births and deaths.
C37_ValuesWithinBoundsAtSite ==
    ValuesWithinBounds(model.current_state)

\* ------------------------------------------------------------------
\* Part II, continued: the retry loop ends
\* ------------------------------------------------------------------

\* a pass of the `while True` loop of _next_iteration that reaches `return`:
\* random.randint picks the perturbation of a free parameter, which raises
\* no DimensionalityException, and the forward model succeeds
ReturningPass == TryFreeParam /\ attempt'.outcome = "completed"

\* random.randint and the forward model are fair: a pass that can reach
\* `return` in every state of the loop is not passed over for ever
InitChainFair ==
    /\ IdleSpace
    /\ IdleRun
    /\ setup = [bounds_checked |-> TRUE, n_iterations |-> NIterations,
                burnin_iterations |-> NIterations, save_every |-> 1,
                trans_d |-> TRUE, n_voronoi_cells |-> 0]
    /\ \E s \in InitialStatesOf(<<site_lb>>) :
          model = [current_state |-> s, proposed_state |-> s,
                   current_perturbation |-> [type |-> "none", idx |-> 0]]
    /\ chain = [current_misfit |-> inf, temperature |-> 1,
                proposed_counts |-> [t \in PerturbationTypes |-> 0],
                accepted_counts |-> [t \in PerturbationTypes |-> 0],
                proposed_counts_total |-> 0, accepted_counts_total |-> 0,
                saved_models |-> <<>>]
    /\ iteration = 1
    /\ attempt = NoAttempt

SpecChainFair ==
    InitChainFair /\ [][NextChain]_vars /\ WF_vars(ReturningPass)

Retrying ==
    attempt.outcome \in {"DimensionalityException", "ForwardException"}

\* advance_chain has left its loop after n_iterations calls of
\* _next_iteration, each of which returned
AdvanceChainReturned ==
    /\ iteration = setup.n_iterations + 1
    /\ attempt.outcome = "completed"
    /\ chain.proposed_counts_total = setup.n_iterations

C38_WitnessReturned == AdvanceChainReturned

\* ------------------------------------------------------------------
\* Part III, continued: the saved samples over the calls of advance_chain
\* ------------------------------------------------------------------

\* the iterations of chain c made by the call of advance_chain that is under
\* way or has just returned
IterationsOfThisCall(c) ==
    (inversion.chains[c].proposed_counts_total - inversion.chains[c].i + 1)
        .. inversion.chains[c].proposed_counts_total

\* C39: saved_models and saved_targets are initialized every time
\* advance_chain is called, so during and after a call they hold only the
\* samples saved by that call.
C39_SavedOnlyFromThisCall ==
    Started =>
        \A c \in 1 .. inversion.n_chains :
            inversion.chains[c].i >= 1 =>
                inversion.chains[c].saved_at \subseteq IterationsOfThisCall(c)

\* the samples are initialized once, in __init__, and every call adds to
\* them: nothing saved is ever dropped
C39_SavedAccumulate ==
    [][\A c \in 1 .. inversion.n_chains :
          inversion.chains[c].saved_at
              \subseteq inversion'.chains[c].saved_at]_vars

\* ------------------------------------------------------------------
\* Part I, continued: the numbers of dimensions initialize() can draw
\* ------------------------------------------------------------------

\* initialize() can return a state of n dimensions
CanDraw(n) == ENABLED (Initialize /\ ret'.state[1].n_dimensions = n)

\* initialize() can draw lowest and highest, and nothing below or above
DrawsExactlyBetween(lowest, highest) ==
    /\ CanDraw(lowest)
    /\ CanDraw(highest)
    /\ \A n \in 0 .. 2 * n_dimensions_max + 1 :
          CanDraw(n) => lowest <= n /\ n <= highest

BeforeInitialize == ret = NoCall /\ space.trans_d

====
